---- MODULE Spec2Model ----
(***************************************************************************)
(* Model of the repository analyzer's chat assistant (intent table,        *)
(* handlers, file locator, content cache, conversation driver) and of the  *)
(* analysis workflow that installs the repository context.                  *)
(*                                                                         *)
(* Texts are TLA+ strings; JavaScript string operations are computed on    *)
(* them character by character (SubSeq, Len, \o).  All texts of the model  *)
(* are ASCII, where String.prototype.toLowerCase and the /i flag of a      *)
(* regular expression agree with ToLower below.  The grave accent (U+0060) *)
(* cannot be written inside a TLA+ string, so BackTick stands for it       *)
(* wherever the source has one.                                            *)
(***************************************************************************)
EXTENDS Integers, Sequences, FiniteSets, TLC

\* ------------------------------------------------------------------------
\* Bounds of the model
\* ------------------------------------------------------------------------
MaxTurns == 2
MaxAnalyses == 2
MaxClassifyTurns == 1
MaxCacheTurns == 2
MaxCacheAnalyses == 2
MaxLiveTurns == 2
MaxPageAnalyses == 2
MaxViewerTurns == 1
MaxFileRequests == 2
MaxListing == 3

\* ------------------------------------------------------------------------
\* JavaScript values and string primitives
\* ------------------------------------------------------------------------
\* null (and the null String.match returns): equal to no string, record or
\* non-empty array of the model
null == <<>>

\* v === null, for a v of any type
IsNull(v) == null = v

\* a capture group that took no part in the match
undefined == "undefined"

\* the grave accent of the source texts
BackTick == "~"

UpperToLower ==
    [c \in {"A","B","C","D","E","F","G","H","I","J","K","L","M","N","O","P",
            "Q","R","S","T","U","V","W","X","Y","Z"} |->
        CASE c = "A" -> "a" [] c = "B" -> "b" [] c = "C" -> "c" [] c = "D" -> "d"
          [] c = "E" -> "e" [] c = "F" -> "f" [] c = "G" -> "g" [] c = "H" -> "h"
          [] c = "I" -> "i" [] c = "J" -> "j" [] c = "K" -> "k" [] c = "L" -> "l"
          [] c = "M" -> "m" [] c = "N" -> "n" [] c = "O" -> "o" [] c = "P" -> "p"
          [] c = "Q" -> "q" [] c = "R" -> "r" [] c = "S" -> "s" [] c = "T" -> "t"
          [] c = "U" -> "u" [] c = "V" -> "v" [] c = "W" -> "w" [] c = "X" -> "x"
          [] c = "Y" -> "y" [] c = "Z" -> "z"]

LowerLetters ==
    {"a","b","c","d","e","f","g","h","i","j","k","l","m","n","o","p",
     "q","r","s","t","u","v","w","x","y","z"}

Digits == {"0","1","2","3","4","5","6","7","8","9"}

\* \w of a regular expression: [A-Za-z0-9_]
WordChars == LowerLetters \cup DOMAIN UpperToLower \cup Digits \cup {"_"}

\* [\w\.\-\/] of the find_file pattern
PathChars == WordChars \cup {".", "-", "/"}

\* \s of a regular expression and the characters String.prototype.trim removes
SpaceChars == {" ", "\t", "\n", "\r"}

CharAt(s, i) == SubSeq(s, i, i)

RECURSIVE ToLower(_)
ToLower(s) ==
    IF s = "" THEN ""
    ELSE LET c == Head(s)
         IN  (IF c \in DOMAIN UpperToLower THEN UpperToLower[c] ELSE c)
                 \o ToLower(Tail(s))

\* s.substring(i-1).startsWith(p), 1-based
StartsWithAt(s, i, p) ==
    /\ i >= 1
    /\ i + Len(p) - 1 <= Len(s)
    /\ SubSeq(s, i, i + Len(p) - 1) = p

EndsWith(s, p) ==
    /\ Len(p) <= Len(s)
    /\ SubSeq(s, Len(s) - Len(p) + 1, Len(s)) = p

Includes(s, p) == \E i \in 1..(Len(s) + 1) : StartsWithAt(s, i, p)

\* Length of the longest run of characters of class cls starting at s[i]
RECURSIVE RunLen(_, _, _)
RunLen(s, i, cls) ==
    IF i <= Len(s) /\ CharAt(s, i) \in cls
    THEN 1 + RunLen(s, i + 1, cls)
    ELSE 0

RECURSIVE TrimStart(_)
TrimStart(s) ==
    IF s # "" /\ Head(s) \in SpaceChars THEN TrimStart(Tail(s)) ELSE s

RECURSIVE TrimEnd(_)
TrimEnd(s) ==
    IF s # "" /\ CharAt(s, Len(s)) \in SpaceChars
    THEN TrimEnd(SubSeq(s, 1, Len(s) - 1))
    ELSE s

Trim(s) == TrimEnd(TrimStart(s))

Min(S) == CHOOSE x \in S : \A y \in S : x <= y

\* ------------------------------------------------------------------------
\* The patterns of the intent table.  A match is the array String.match
\* returns, indexed from 0 (the whole match) as in the source; NoMatch is
\* its null.
\* ------------------------------------------------------------------------
NoMatch == <<>>

MatchArray(m0, m1, m2, m3) ==
    [i \in 0..3 |-> CASE i = 0 -> m0 [] i = 1 -> m1 [] i = 2 -> m2 [] i = 3 -> m3]

\* /^h(i|ello)$/i
MatchGreet(message) ==
    IF ToLower(message) \in {"hi", "hello"}
    THEN MatchArray(message, SubSeq(message, 2, Len(message)), undefined, undefined)
    ELSE NoMatch

\* First alternative of words matching at position i of the lower-cased
\* text l, 0 for none
AltAt(l, i, words) ==
    LET hits == {k \in 1..Len(words) : StartsWithAt(l, i, words[k])}
    IN  IF hits = {} THEN 0 ELSE Min(hits)

\* The leftmost position of 1..n at which an attempt succeeds, 0 for none
Leftmost(at) == IF at = {} THEN 0 ELSE Min(at)

FindVerbs == <<"find", "show me", "where is", "open", "get">>

\* Where the token of the find_file pattern starts when the verb's space ends
\* before j: after the optional "the " (greedy, given up when no token
\* follows it)
FindTokenStart(message, l, j) ==
    IF StartsWithAt(l, j, "the ") /\ RunLen(message, j + 4, PathChars) > 0
    THEN j + 4 ELSE j

\* The match of verb v at i whose greedy token [\w\.\-\/]+ starts at start
FindToken(message, i, v, start) ==
    IF RunLen(message, start, PathChars) = 0 THEN NoMatch
    ELSE MatchArray(SubSeq(message, i, start + RunLen(message, start, PathChars) - 1),
                    SubSeq(message, i, i + Len(FindVerbs[v]) - 1),
                    IF start > i + Len(FindVerbs[v]) + 1
                    THEN SubSeq(message, start - 4, start - 1) ELSE undefined,
                    SubSeq(message, start,
                           start + RunLen(message, start, PathChars) - 1))

\* One attempt of the find_file pattern at position i, where alternative v
\* of the verb group matches (0: none): the verb, a space, then the token
FindAt(message, l, i, v) ==
    IF v = 0 \/ ~StartsWithAt(l, i + Len(FindVerbs[v]), " ") THEN NoMatch
    ELSE FindToken(message, i, v,
                   FindTokenStart(message, l, i + Len(FindVerbs[v]) + 1))

FindLeftmost(message, l, i) ==
    IF i = 0 THEN NoMatch ELSE FindAt(message, l, i, AltAt(l, i, FindVerbs))

\* /(find|show me|where is|open|get) (the )?([\w\.\-\/]+)/i : leftmost match
\* of the lower-cased text l
FindIn(message, l) ==
    FindLeftmost(message, l,
        Leftmost({i \in 1..Len(message) :
                     FindAt(message, l, i, AltAt(l, i, FindVerbs)) # NoMatch}))

MatchFindFile(message) == FindIn(message, ToLower(message))

\* The match of the alternative w found at position i
WordMatch(message, i, w) ==
    MatchArray(SubSeq(message, i, i + Len(w) - 1), SubSeq(message, i, i + Len(w) - 1),
               undefined, undefined)

AboutWords == <<"what is this", "about", "describe", "purpose">>

\* /^(what is this|about|describe|purpose)/i
AboutIn(message, k) ==
    IF k = 0 THEN NoMatch ELSE WordMatch(message, 1, AboutWords[k])

MatchAbout(message) == AboutIn(message, AltAt(ToLower(message), 1, AboutWords))

WordsLeftmost(message, l, words, i) ==
    IF i = 0 THEN NoMatch ELSE WordMatch(message, i, words[AltAt(l, i, words)])

\* A pattern that is one group of alternatives, unanchored: /(w1|w2|...)/i
WordsIn(message, l, words) ==
    WordsLeftmost(message, l, words,
        Leftmost({i \in 1..Len(message) : AltAt(l, i, words) # 0}))

MatchWords(message, words) == WordsIn(message, ToLower(message), words)

DependencyWords == <<"dependencies", "packages", "libraries", "libs">>

\* /(dependencies|packages|libraries|libs)/i
MatchListDependencies(message) == MatchWords(message, DependencyWords)

ExplainVerbs == <<"what does", "explain", "how does">>
ExplainKinds == <<"function", "method", "do">>
QuoteChars == {BackTick, "'"}

\* The position after an optional quote [`']? at position j
AfterQuote(message, j) ==
    IF j <= Len(message) /\ CharAt(message, j) \in QuoteChars THEN j + 1 ELSE j

\* The match of verb v at i, identifier from s to before e, space at q and
\* alternative k of function|method|do after it (0: none)
ExplainKind(message, l, i, v, s, e, q, k) ==
    IF e = s \/ ~StartsWithAt(l, q, " ") \/ k = 0 THEN NoMatch
    ELSE MatchArray(SubSeq(message, i, q + Len(ExplainKinds[k])),
                    SubSeq(message, i, i + Len(ExplainVerbs[v]) - 1),
                    SubSeq(message, s, e - 1),
                    SubSeq(message, q + 1, q + Len(ExplainKinds[k])))

\* ... the greedy identifier \w+ running from s to before e.  \w excludes the
\* quotes and the space, so giving back characters of it never helps.
ExplainQuote(message, l, i, v, s, e, q) ==
    ExplainKind(message, l, i, v, s, e, q, AltAt(l, q + 1, ExplainKinds))

ExplainIdentifier(message, l, i, v, s, e) ==
    ExplainQuote(message, l, i, v, s, e, AfterQuote(message, e))

ExplainFrom(message, l, i, v, s) ==
    ExplainIdentifier(message, l, i, v, s, s + RunLen(message, s, WordChars))

\* One attempt of the explain_code pattern at position i, where alternative
\* v of the verb group matches (0: none): the verb, a space, an optional
\* quote, the identifier, an optional quote, a space, function|method|do
ExplainAt(message, l, i, v) ==
    IF v = 0 \/ ~StartsWithAt(l, i + Len(ExplainVerbs[v]), " ") THEN NoMatch
    ELSE ExplainFrom(message, l, i, v,
                     AfterQuote(message, i + Len(ExplainVerbs[v]) + 1))

ExplainLeftmost(message, l, i) ==
    IF i = 0 THEN NoMatch ELSE ExplainAt(message, l, i, AltAt(l, i, ExplainVerbs))

\* /(what does|explain|how does) [`']?(\w+)[`']? (function|method|do)/i :
\* leftmost match of the lower-cased text l
ExplainIn(message, l) ==
    ExplainLeftmost(message, l,
        Leftmost({i \in 1..Len(message) :
                     ExplainAt(message, l, i, AltAt(l, i, ExplainVerbs)) # NoMatch}))

MatchExplainCode(message) == ExplainIn(message, ToLower(message))

\* The words of the get_metadata pattern with one the handler does not know
MetadataWordsWithBranch == <<"owner", "author", "stars", "forks", "license", "branch">>

MetadataWords == <<"owner", "author", "stars", "forks", "license">>

\* /(owner|author|stars|forks|license)/i
MatchGetMetadata(message) == MatchWords(message, MetadataWords)

\* /^help$/i
MatchHelpExact(message) ==
    IF ToLower(message) = "help"
    THEN MatchArray(message, undefined, undefined, undefined) ELSE NoMatch

\* The match array of a pattern without groups, from that of the same words
\* as one group
Ungrouped(m) == IF m = NoMatch THEN NoMatch ELSE MatchArray(m[0], undefined, undefined, undefined)

\* /what can you do/i
MatchHelpWhat(message) == Ungrouped(MatchWords(message, <<"what can you do">>))

\* message.match(pattern), the pattern named by its place in the table
Match(pattern, message) ==
    CASE pattern = "greet" -> MatchGreet(message)
      [] pattern = "about" -> MatchAbout(message)
      [] pattern = "find_file" -> MatchFindFile(message)
      [] pattern = "list_dependencies" -> MatchListDependencies(message)
      [] pattern = "explain_code" -> MatchExplainCode(message)
      [] pattern = "get_metadata" -> MatchGetMetadata(message)
      [] pattern = "help_exact" -> MatchHelpExact(message)
      [] pattern = "help_what" -> MatchHelpWhat(message)

\* The intent table with get_metadata declared before about
intentsMetadataFirst ==
    << [name |-> "greet", patterns |-> <<"greet">>],
       [name |-> "get_metadata", patterns |-> <<"get_metadata">>],
       [name |-> "find_file", patterns |-> <<"find_file">>],
       [name |-> "list_dependencies", patterns |-> <<"list_dependencies">>],
       [name |-> "explain_code", patterns |-> <<"explain_code">>],
       [name |-> "about", patterns |-> <<"about">>],
       [name |-> "help", patterns |-> <<"help_exact", "help_what">>] >>

\* The intent table, in declared order
intents ==
    << [name |-> "greet", patterns |-> <<"greet">>],
       [name |-> "about", patterns |-> <<"about">>],
       [name |-> "find_file", patterns |-> <<"find_file">>],
       [name |-> "list_dependencies", patterns |-> <<"list_dependencies">>],
       [name |-> "explain_code", patterns |-> <<"explain_code">>],
       [name |-> "get_metadata", patterns |-> <<"get_metadata">>],
       [name |-> "help", patterns |-> <<"help_exact", "help_what">>] >>

\* ------------------------------------------------------------------------
\* The remote API: what the fetch functions of the API layer return for the
\* repositories of the model.
\* ------------------------------------------------------------------------
RepoKeys ==
    {"ann/alpha", "bob/beta", "cat/gamma", "dan/delta", "eve/epsilon", "fay/zeta"}

\* fetchRepositoryData: the JSON of /repos/{owner}/{repo}
RemoteRepoData(key) ==
    CASE key = "ann/alpha" ->
            [name |-> "alpha", full_name |-> "ann/alpha", description |-> null,
             owner |-> [login |-> "ann"], stargazers_count |-> 5, forks_count |-> 1,
             license |-> null, default_branch |-> "main",
             clone_url |-> "https://github.com/ann/alpha.git"]
      [] key = "bob/beta" ->
            [name |-> "beta", full_name |-> "bob/beta", description |-> "A demo",
             owner |-> [login |-> "bob"], stargazers_count |-> 12, forks_count |-> 3,
             license |-> [name |-> "MIT License"], default_branch |-> "main",
             clone_url |-> "https://github.com/bob/beta.git"]
      [] key = "cat/gamma" ->
            [name |-> "gamma", full_name |-> "cat/gamma", description |-> "",
             owner |-> [login |-> "cat"], stargazers_count |-> 0, forks_count |-> 7,
             license |-> [name |-> "Apache License 2.0"], default_branch |-> "main",
             clone_url |-> "https://github.com/cat/gamma.git"]
      [] key = "dan/delta" ->
            [name |-> "delta", full_name |-> "dan/delta", description |-> "Notes",
             owner |-> [login |-> "dan"], stargazers_count |-> 2, forks_count |-> 0,
             license |-> null, default_branch |-> "master",
             clone_url |-> "https://github.com/dan/delta.git"]
      [] key = "eve/epsilon" ->
            [name |-> "epsilon", full_name |-> "eve/epsilon", description |-> null,
             owner |-> [login |-> "eve"], stargazers_count |-> 1, forks_count |-> 1,
             license |-> [name |-> "MIT License"], default_branch |-> "main",
             clone_url |-> "https://github.com/eve/epsilon.git"]
      [] key = "fay/zeta" ->
            [name |-> "zeta", full_name |-> "fay/zeta", description |-> "Two scripts",
             owner |-> [login |-> "fay"], stargazers_count |-> 3, forks_count |-> 2,
             license |-> null, default_branch |-> "main",
             clone_url |-> "https://github.com/fay/zeta.git"]

\* fetchLanguages: language name -> bytes
RemoteLanguages(key) ==
    CASE key = "ann/alpha" -> [JavaScript |-> 900, HTML |-> 100]
      [] key = "bob/beta" -> [JavaScript |-> 400]
      [] key = "cat/gamma" -> [JavaScript |-> 700, Markdown |-> 50]
      [] key = "dan/delta" -> [Markdown |-> 80]
      [] key = "eve/epsilon" -> [JavaScript |-> 10]
      [] key = "fay/zeta" -> [JavaScript |-> 60]

\* fetchRepositoryStructure: data.tree, the flat listing in the API's order
RemoteTree(key) ==
    CASE key = "ann/alpha" ->
            << [path |-> "src/app.js", url |-> "blobs/a1"],
               [path |-> "README.md", url |-> "blobs/a2"],
               [path |-> "package.json", url |-> "blobs/a3"],
               [path |-> "lib/util.js", url |-> "blobs/a4"] >>
      [] key = "bob/beta" ->
            << [path |-> "src/package.json", url |-> "blobs/b1"],
               [path |-> "index.js", url |-> "blobs/b2"] >>
      [] key = "cat/gamma" ->
            << [path |-> "src/package.json", url |-> "blobs/g1"],
               [path |-> "package.json", url |-> "blobs/g2"],
               [path |-> "docs/Guide.md", url |-> "blobs/g3"],
               [path |-> "lib/utils/helper.js", url |-> "blobs/g4"],
               [path |-> "test/helper.js", url |-> "blobs/g5"] >>
      [] key = "dan/delta" ->
            << [path |-> "NOTES.md", url |-> "blobs/d1"],
               [path |-> "package.json", url |-> "blobs/d2"] >>
      [] key = "eve/epsilon" ->
            << [path |-> "README.md", url |-> "blobs/e1"],
               [path |-> "main.js", url |-> "blobs/e2"] >>
      [] key = "fay/zeta" ->
            << [path |-> "src/first.js", url |-> "blobs/z1"],
               [path |-> "src/second.js", url |-> "blobs/z2"],
               [path |-> "src/third.js", url |-> "blobs/z3"] >>

\* The decoded texts fetchFileContent can return for a locator
RemoteFile(url) ==
    CASE url = "blobs/a1" -> {"let bar = (a) => a;\nfunction main() {}"}
      [] url = "blobs/a2" -> {"# alpha"}
      [] url = "blobs/a3" -> {"{\"dependencies\":{\"left-pad\":\"^1.0.0\"}}"}
      [] url = "blobs/a4" -> {"// util\nfunction foo(a) {\n  return a;\n}"}
      [] url = "blobs/b1" -> {"{\"name\":"}
      [] url = "blobs/b2" -> {"const run = () => 1;"}
      [] url = "blobs/g1" -> {"{\"dependencies\":{\"express\":\"^4.0.0\"}}"}
      [] url = "blobs/g2" ->
            {"{\"name\":\"gamma\",\"dependencies\":{\"left-pad\":\"^1.0.0\"},"
             \o "\"devDependencies\":{\"jest\":\"^29.0.0\"}}"}
      [] url = "blobs/g3" -> {"# Guide"}
      [] url = "blobs/g4" -> {"function helper() {}"}
      [] url = "blobs/g5" -> {"const check = (x) => x;"}
      [] url = "blobs/d1" -> {"notes"}
      [] url = "blobs/d2" -> {"{\"name\":\"delta\"}"}
      [] url = "blobs/e1" -> {"# epsilon"}
      [] url = "blobs/e2" -> {"let main = (a) => a;"}
      [] url = "blobs/z1" -> {"const foo = (\n  a\n) => a;"}
      [] url = "blobs/z2" -> {"function foo() {}"}
      [] url = "blobs/z3" -> {"function main() {}"}

\* ------------------------------------------------------------------------
\* JSON.parse, for the documents of the model: objects whose values are
\* strings or objects, written without white space.  Every other text of
\* the model is no JSON at all, and JSON.parse throws a SyntaxError.  An
\* object is the sequence of its <<key, value>> members in source order.
\* ------------------------------------------------------------------------
JsonStringChars == PathChars \cup {" ", "^", "*", ">", "<", "=", "@"}

JsonFail == [ok |-> FALSE, value |-> null, next |-> 0]

\* The JavaScript values JSON.parse builds here, and the undefined a missing
\* member reads as
JsString(s) == [type |-> "string", chars |-> s]
JsObject(members) == [type |-> "object", members |-> members]
JsUndefined == [type |-> "undefined"]

\* A string literal starting at s[i] with n characters between its quotes
JsonStringOf(s, i, n) ==
    IF StartsWithAt(s, i, "\"") /\ StartsWithAt(s, i + 1 + n, "\"")
    THEN [ok |-> TRUE, value |-> JsString(SubSeq(s, i + 1, i + n)), next |-> i + n + 2]
    ELSE JsonFail

JsonString(s, i) == JsonStringOf(s, i, RunLen(s, i + 1, JsonStringChars))

\* obj[key] = value: a key the object has keeps its place
SetMember(members, key, value) ==
    LET at == {n \in 1..Len(members) : members[n][1] = key}
    IN  IF at = {} THEN Append(members, <<key, value>>)
        ELSE [members EXCEPT ![Min(at)] = <<key, value>>]

RECURSIVE JsonValue(_, _)
RECURSIVE JsonMembers(_, _, _)

RECURSIVE JsonAfterKey(_, _, _)
RECURSIVE JsonAfterValue(_, _, _, _)

\* The members of an object after its "{" or after a ",", up to its "}"
JsonMembers(s, i, acc) == JsonAfterKey(s, JsonString(s, i), acc)

\* ... from the key k just read: a colon and the value
JsonAfterKey(s, k, acc) ==
    IF ~k.ok \/ ~StartsWithAt(s, k.next, ":") THEN JsonFail
    ELSE JsonAfterValue(s, k, JsonValue(s, k.next + 1), acc)

\* ... from the value v just read: a comma and more members, or the "}"
JsonAfterValue(s, k, v, acc) ==
    IF ~v.ok THEN JsonFail
    ELSE IF StartsWithAt(s, v.next, ",")
    THEN JsonMembers(s, v.next + 1, SetMember(acc, k.value.chars, v.value))
    ELSE IF StartsWithAt(s, v.next, "}")
    THEN [ok |-> TRUE, value |-> JsObject(SetMember(acc, k.value.chars, v.value)),
          next |-> v.next + 1]
    ELSE JsonFail

JsonValue(s, i) ==
    IF StartsWithAt(s, i, "\"") THEN JsonString(s, i)
    ELSE IF StartsWithAt(s, i, "{}")
         THEN [ok |-> TRUE, value |-> JsObject(<<>>), next |-> i + 2]
    ELSE IF StartsWithAt(s, i, "{") THEN JsonMembers(s, i + 1, <<>>)
    ELSE JsonFail

\* The whole text must be the value v read from its start
JsonWhole(text, v) == IF v.ok /\ v.next = Len(text) + 1 THEN v ELSE JsonFail

\* JSON.parse(text): ok is FALSE where it throws
JsonParse(text) == JsonWhole(text, JsonValue(text, 1))

\* data[key]: undefined for a missing member and for a member of a string
Member(data, key) ==
    IF data.type # "object" THEN JsUndefined
    ELSE LET at == {n \in 1..Len(data.members) : data.members[n][1] = key}
         IN  IF at = {} THEN JsUndefined ELSE data.members[Min(at)][2]

\* The own enumerable properties an object spread copies from v, in order:
\* none of undefined, the members of an object, the indexed characters of a
\* string
SpreadOf(v) ==
    CASE v.type = "undefined" -> <<>>
      [] v.type = "object" -> v.members
      [] v.type = "string" ->
            [n \in 1..Len(v.chars) |-> <<ToString(n - 1), JsString(CharAt(v.chars, n))>>]

\* { ...acc, ...members }
RECURSIVE SpreadInto(_, _)
SpreadInto(acc, members) ==
    IF members = <<>> THEN acc
    ELSE SpreadInto(SetMember(acc, Head(members)[1], Head(members)[2]), Tail(members))

\* `${value}` of a parsed JSON value
TemplateOf(v) ==
    CASE v.type = "string" -> v.chars
      [] v.type = "object" -> "[object Object]"
      [] v.type = "undefined" -> "undefined"

\* s.split(sep) for a one-character separator
RECURSIVE Split(_, _)
Split(s, sep) ==
    LET at == {i \in 1..Len(s) : CharAt(s, i) = sep}
    IN  IF at = {} THEN <<s>>
        ELSE <<SubSeq(s, 1, Min(at) - 1)>> \o Split(SubSeq(s, Min(at) + 1, Len(s)), sep)

\* parts.join(sep)
RECURSIVE Join(_, _)
Join(parts, sep) ==
    IF parts = <<>> THEN ""
    ELSE IF Len(parts) = 1 THEN parts[1]
    ELSE parts[1] \o sep \o Join(Tail(parts), sep)

\* array.slice(from, to), 0-based, to exclusive
Slice(a, from, to) ==
    SubSeq(a, from + 1, IF to < Len(a) THEN to ELSE Len(a))

\* array.filter(pred)
Filter(a, pred(_)) == SelectSeq(a, pred)

\* ------------------------------------------------------------------------
\* State
\* ------------------------------------------------------------------------
VARIABLES
    \* the chatbot's context and cache
    chatbotRepoData, chatbotRepoStructure, chatbotLanguages, fileContentCache,
    \* #chat-messages: the bubbles, in document order
    chatMessages,
    \* the sendChatMessage calls made so far, each with its position and locals
    turns,
    \* the setTimeout callbacks not yet run, in firing order
    timers,
    \* per locator, the fetchFileContent calls getFileContent has made under
    \* the installed context, and how many of them failed
    fetchLog,
    \* the closure variables of the page script
    currentRepoData, currentRepoLanguages, currentRepoStructure,
    \* the handleAnalysis calls made so far, each with its position and locals
    analyses,
    \* the loading overlay, the dashboard, the README pane and the code viewer
    view,
    \* the fetchReadme calls populateDashboard has made, each with its position
    readmeRequests,
    \* the clicks on a file of the tree or on a chat button made so far, each
    \* with its position and locals
    fileRequests

vars ==
    << chatbotRepoData, chatbotRepoStructure, chatbotLanguages, fileContentCache,
       chatMessages, turns, timers, fetchLog,
       currentRepoData, currentRepoLanguages, currentRepoStructure, analyses, view,
       readmeRequests, fileRequests >>

chatbotVars == <<chatbotRepoData, chatbotRepoStructure, chatbotLanguages>>
chatVars == <<chatMessages, turns, timers>>
pageVars ==
    <<currentRepoData, currentRepoLanguages, currentRepoStructure, analyses, view,
      readmeRequests, fileRequests>>

AllUrls == UNION {{RemoteTree(k)[n].url : n \in 1..Len(RemoteTree(k))} : k \in RepoKeys}

\* ------------------------------------------------------------------------
\* The chatbot: texts
\* ------------------------------------------------------------------------
TypingIndicator == "<div class=\"typing-indicator\"><span></span><span></span><span></span></div>"

PleaseAnalyzeText == "Please analyze a repository first."

FallbackText == "I'm not sure how to answer that. Try asking 'help' to see what I can do."

HelpText ==
    "I can help you understand this repository. Try asking me things like:\n<ul>"
    \o "<li>\"What is this project about?\"</li>"
    \o "<li>\"Show me the package.json file\"</li>"
    \o "<li>\"What are the dependencies?\"</li>"
    \o "<li>\"What does the 'handleAnalysis' function do?\"</li>"
    \o "<li>\"Who is the owner?\"</li></ul>"

GreetText(repoData) ==
    "Hello! How can I help you with the **" \o repoData.name \o "** repository?"

AboutText(repoData) ==
    "This is the **" \o repoData.name \o "** repository. The description says: \""
    \o (IF IsNull(repoData.description) \/ repoData.description = ""
        THEN "No description provided." ELSE repoData.description)
    \o "\""

MetadataNotFoundText == "I couldn't find that specific piece of information."

\* The button with the path as its locator and the locator as its path
ViewFileButtonSwapped(file, label) ==
    "<button class=\"chat-action-btn\" data-action=\"view-file\" data-url=\""
    \o file.path \o "\" data-path=\"" \o file.url \o "\">" \o label \o "</button>"

ViewFileButton(file, label) ==
    "<button class=\"chat-action-btn\" data-action=\"view-file\" data-url=\""
    \o file.url \o "\" data-path=\"" \o file.path \o "\">" \o label \o "</button>"

FileFoundText(file) ==
    "I found the file " \o BackTick \o file.path \o BackTick \o ".<br>"
    \o ViewFileButton(file, "Click here to view it")

FileNotFoundText(fileName) ==
    "Sorry, I couldn't find a file named " \o BackTick \o fileName \o BackTick \o "."

NoPackageJsonText ==
    "I couldn't find a " \o BackTick \o "package.json" \o BackTick
    \o " file to check for dependencies."

TroubleReadingText ==
    "I found a " \o BackTick \o "package.json" \o BackTick \o ", but I had trouble reading it."

NoDependenciesText ==
    BackTick \o "package.json" \o BackTick \o " was found, but it lists no dependencies."

RECURSIVE DependencyItems(_)
DependencyItems(dependencies) ==
    IF dependencies = <<>> THEN ""
    ELSE "<li><strong>" \o Head(dependencies)[1] \o "</strong>: "
         \o TemplateOf(Head(dependencies)[2]) \o "</li>"
         \o DependencyItems(Tail(dependencies))

DependencyListText(dependencies) ==
    "Here are the dependencies from " \o BackTick \o "package.json" \o BackTick
    \o ":<ul class=\"chat-list\">" \o DependencyItems(dependencies) \o "</ul>"

FunctionNotFoundText(functionName) ==
    "I couldn't find a function named " \o BackTick \o functionName \o BackTick
    \o " in any of the JavaScript files."

\* hljs.highlightAuto(code).value: the markup of the external highlighter
Highlight(code) == "<span class=\"hljs-auto\">" \o code \o "</span>"

FunctionFoundText(functionName, file, codeSnippet) ==
    "I found a function named " \o BackTick \o functionName \o BackTick \o " in "
    \o BackTick \o file.path \o BackTick \o ". Here's a snippet:\n"
    \o "<pre><code class=\"hljs\">" \o Highlight(codeSnippet) \o "</code></pre>\n"
    \o ViewFileButton(file, "View the full file")

\* ------------------------------------------------------------------------
\* The chatbot: helpers and synchronous handlers
\* ------------------------------------------------------------------------
\* The first element of a sequence satisfying pred, or null: Array.find
Find(a, pred(_)) ==
    LET at == {n \in 1..Len(a) : pred(a[n])}
    IN  IF at = {} THEN null ELSE a[Min(at)]

\* value || other, for a value that is an object or null
OrElse(value, other) == IF ~IsNull(value) THEN value ELSE other

\* findFileInStructure in one pass: the first entry that either rule accepts
findFileEitherRule(structure, fileName) ==
    LET either(f) == \/ ToLower(f.path) = ToLower(fileName)
                     \/ EndsWith(ToLower(f.path), "/" \o ToLower(fileName))
    IN  Find(structure, either)

\* findFileInStructure comparing the suffix as written
findFileSuffixAsWritten(structure, fileName) ==
    LET exact(f) == ToLower(f.path) = ToLower(fileName)
        suffix(f) == EndsWith(f.path, "/" \o fileName)
    IN  OrElse(Find(structure, exact), Find(structure, suffix))

findFileInStructure(structure, fileName) ==
    LET exact(f) == ToLower(f.path) = ToLower(fileName)
        suffix(f) == EndsWith(ToLower(f.path), "/" \o ToLower(fileName))
    IN  OrElse(Find(structure, exact), Find(structure, suffix))

\* handleGetMetadata testing for the license before the other keywords
handleGetMetadataLicenseFirst(repoData, message) ==
    LET keyword == ToLower(message)
    IN  IF Includes(keyword, "license")
        THEN "The repository is under the **"
             \o (IF ~IsNull(repoData.license) THEN repoData.license.name ELSE "N/A")
             \o "** license."
        ELSE IF Includes(keyword, "owner") \/ Includes(keyword, "author")
        THEN "The owner of this repository is **" \o repoData.owner.login \o "**."
        ELSE IF Includes(keyword, "stars")
        THEN "It has **" \o ToString(repoData.stargazers_count) \o "** stars."
        ELSE IF Includes(keyword, "forks")
        THEN "It has **" \o ToString(repoData.forks_count) \o "** forks."
        ELSE MetadataNotFoundText

handleGetMetadata(repoData, message) ==
    LET keyword == ToLower(message)
    IN  IF Includes(keyword, "owner") \/ Includes(keyword, "author")
        THEN "The owner of this repository is **" \o repoData.owner.login \o "**."
        ELSE IF Includes(keyword, "stars")
        THEN "It has **" \o ToString(repoData.stargazers_count) \o "** stars."
        ELSE IF Includes(keyword, "forks")
        THEN "It has **" \o ToString(repoData.forks_count) \o "** forks."
        ELSE IF Includes(keyword, "license")
        THEN "The repository is under the **"
             \o (IF ~IsNull(repoData.license) THEN repoData.license.name ELSE "N/A")
             \o "** license."
        ELSE MetadataNotFoundText

FindFileAnswer(fileName, file) ==
    IF ~IsNull(file) THEN FileFoundText(file) ELSE FileNotFoundText(fileName)

handleFindFile(structure, match) ==
    FindFileAnswer(match[3], findFileInStructure(structure, match[3]))

\* handleListDependencies from the content of package.json on: the try
\* block after the await, and its catch
DependenciesAnswer(dependencies) ==
    IF Len(dependencies) > 0 THEN DependencyListText(dependencies)
    ELSE NoDependenciesText

\* The dependencies of the manifest without its devDependencies
DependenciesRuntimeOnly(data) ==
    IF ~data.ok THEN TroubleReadingText
    ELSE DependenciesAnswer(SpreadInto(<<>>, SpreadOf(Member(data.value, "dependencies"))))

DependenciesOf(data) ==
    IF ~data.ok THEN TroubleReadingText
    ELSE DependenciesAnswer(
             SpreadInto(SpreadInto(<<>>, SpreadOf(Member(data.value, "dependencies"))),
                        SpreadOf(Member(data.value, "devDependencies"))))

DependenciesFrom(content) == DependenciesOf(JsonParse(content))

\* functionRegex.test(text) where text has the pattern of a declaration of
\* functionName starting at position i:
\*   function\s+NAME
FunctionDeclAt(text, i, functionName) ==
    /\ StartsWithAt(text, i, "function")
    /\ RunLen(text, i + 8, SpaceChars) >= 1
    /\ StartsWithAt(text, i + 8 + RunLen(text, i + 8, SpaceChars), functionName)

\*   KEYWORD\s+NAME\s*=\s*\(.*\)\s*=>   (flag s: the dot matches line breaks)
ArrowDeclAt(text, i, keyword, functionName) ==
    LET a == i + Len(keyword) + RunLen(text, i + Len(keyword), SpaceChars)
        b == a + Len(functionName) + RunLen(text, a + Len(functionName), SpaceChars)
        c == b + 1 + RunLen(text, b + 1, SpaceChars)
    IN  /\ StartsWithAt(text, i, keyword)
        /\ RunLen(text, i + Len(keyword), SpaceChars) >= 1
        /\ StartsWithAt(text, a, functionName)
        /\ StartsWithAt(text, b, "=")
        /\ StartsWithAt(text, c, "(")
        /\ \E p \in (c + 1)..Len(text) :
              /\ CharAt(text, p) = ")"
              /\ StartsWithAt(text, p + 1 + RunLen(text, p + 1, SpaceChars), "=>")

\* functionRegex.test(text), and line.match(functionRegex) as a condition
FunctionRegexTest(text, functionName) ==
    \E i \in 1..Len(text) :
        \/ FunctionDeclAt(text, i, functionName)
        \/ ArrowDeclAt(text, i, "const", functionName)
        \/ ArrowDeclAt(text, i, "let", functionName)

\* lines.slice(startLine, startLine + 15)
SnippetLines == 15

\* lines.findIndex(pred), -1 for none
FindIndex(a, pred(_)) ==
    LET at == {n \in 1..Len(a) : pred(a[n])}
    IN  IF at = {} THEN -1 ELSE Min(at) - 1

ExplainSnippet(file, functionName, lines, startLine) ==
    IF startLine = -1 THEN null
    ELSE FunctionFoundText(functionName, file,
             Join(Slice(lines, startLine, startLine + SnippetLines), "\n"))

ExplainInLines(file, functionName, lines) ==
    LET declares(line) == FunctionRegexTest(line, functionName)
    IN  ExplainSnippet(file, functionName, lines, FindIndex(lines, declares))

\* The body of handleExplainCode's loop for one file whose content is at
\* hand: the response, or null when the loop goes on to the next file
ExplainInFile(file, content, functionName) ==
    IF ~FunctionRegexTest(content, functionName) THEN null
    ELSE ExplainInLines(file, functionName, Split(content, "\n"))

\* ------------------------------------------------------------------------
\* The chatbot: generateChatbotResponse and the asynchronous handlers, run
\* from one suspension point to the next.  A step is where the call stands
\* afterwards: pc "timeout" with the response it returned, or pc
\* "getFileContent" with the file whose fetch it awaits and the files of
\* relevantFiles not yet tried (the awaited one first).
\* ------------------------------------------------------------------------
Returned(handler, text) ==
    [pc |-> "timeout", handler |-> handler, response |-> text,
     functionName |-> null, relevantFiles |-> <<>>, file |-> null]

Awaiting(handler, functionName, relevantFiles, file) ==
    [pc |-> "getFileContent", handler |-> handler, response |-> null,
     functionName |-> functionName, relevantFiles |-> relevantFiles, file |-> file]

\* handleListDependencies reading the locator of the manifest without
\* testing that one was found: a TypeError when none was
ListDependenciesUnguarded(packageJson, cache) ==
    IF IsNull(packageJson) THEN [Returned("list_dependencies", null) EXCEPT !.pc = "rejected"]
    ELSE IF packageJson.url \in DOMAIN cache
    THEN Returned("list_dependencies", DependenciesFrom(cache[packageJson.url]))
    ELSE Awaiting("list_dependencies", null, <<>>, packageJson)

\* handleListDependencies fetching the manifest whether cached or not
ListDependenciesUncached(packageJson, cache) ==
    IF IsNull(packageJson) THEN Returned("list_dependencies", NoPackageJsonText)
    ELSE Awaiting("list_dependencies", null, <<>>, packageJson)

ListDependenciesOf(packageJson, cache) ==
    IF IsNull(packageJson) THEN Returned("list_dependencies", NoPackageJsonText)
    ELSE IF packageJson.url \in DOMAIN cache
    THEN Returned("list_dependencies", DependenciesFrom(cache[packageJson.url]))
    ELSE Awaiting("list_dependencies", null, <<>>, packageJson)

\* handleListDependencies up to its await
handleListDependencies(structure, cache) ==
    ListDependenciesOf(findFileInStructure(structure, "package.json"), cache)

\* The for loop of handleExplainCode from the files left on, every cached
\* content answered by getFileContent without a fetch
RECURSIVE ExplainLoop(_, _, _)
RECURSIVE ExplainNext(_, _, _, _)
ExplainLoop(relevantFiles, functionName, cache) ==
    IF relevantFiles = <<>>
    THEN Returned("explain_code", FunctionNotFoundText(functionName))
    ELSE IF Head(relevantFiles).url \notin DOMAIN cache
    THEN Awaiting("explain_code", functionName, relevantFiles, Head(relevantFiles))
    ELSE ExplainNext(relevantFiles, functionName, cache,
                     ExplainInFile(Head(relevantFiles), cache[Head(relevantFiles).url],
                                   functionName))

\* ... after the body of the loop ran for the first of relevantFiles: found
\* is what it returned, null when it returned nothing
ExplainNext(relevantFiles, functionName, cache, found) ==
    IF ~IsNull(found) THEN Returned("explain_code", found)
    ELSE ExplainLoop(Tail(relevantFiles), functionName, cache)

\* handleExplainCode up to its first await
handleExplainCode(structure, cache, match) ==
    LET isScript(file) == EndsWith(file.path, ".js")
    IN  ExplainLoop(Filter(structure, isScript), match[2], cache)

\* The handlers with an "about" that reads the manifest through the cache
HandleAboutReadsManifest(name, match, message, repoData, structure, cache) ==
    CASE name = "greet" -> Returned(name, GreetText(repoData))
      [] name = "about" -> handleListDependencies(structure, cache)
      [] name = "find_file" -> Returned(name, handleFindFile(structure, match))
      [] name = "list_dependencies" -> handleListDependencies(structure, cache)
      [] name = "explain_code" -> handleExplainCode(structure, cache, match)
      [] name = "get_metadata" -> Returned(name, handleGetMetadata(repoData, message))
      [] name = "help" -> Returned(name, HelpText)

\* intent.handler(match, message)
Handle(name, match, message, repoData, structure, cache) ==
    CASE name = "greet" -> Returned(name, GreetText(repoData))
      [] name = "about" -> Returned(name, AboutText(repoData))
      [] name = "find_file" -> Returned(name, handleFindFile(structure, match))
      [] name = "list_dependencies" -> handleListDependencies(structure, cache)
      [] name = "explain_code" -> handleExplainCode(structure, cache, match)
      [] name = "get_metadata" -> Returned(name, handleGetMetadata(repoData, message))
      [] name = "help" -> Returned(name, HelpText)

\* The loops of generateChatbotResponse without the inner one: only the
\* first pattern of each rule is tried
RECURSIVE FirstMatchFirstPattern(_, _, _, _)
FirstMatchFirstPattern(table, message, i, j) ==
    IF i > Len(table) THEN null
    ELSE IF Match(table[i].patterns[1], message) # NoMatch
    THEN [name |-> table[i].name, match |-> Match(table[i].patterns[1], message)]
    ELSE FirstMatchFirstPattern(table, message, i + 1, 1)

\* The two nested loops of generateChatbotResponse from rule i, pattern j on:
\* the first rule and match found, or null
RECURSIVE FirstMatch(_, _, _, _)
RECURSIVE TryMatch(_, _, _, _, _)
FirstMatch(table, message, i, j) ==
    IF i > Len(table) THEN null
    ELSE IF j > Len(table[i].patterns) THEN FirstMatch(table, message, i + 1, 1)
    ELSE TryMatch(table, message, i, j, Match(table[i].patterns[j], message))

\* ... after message.match(pattern) returned match for pattern j of rule i
TryMatch(table, message, i, j, match) ==
    IF match # NoMatch THEN [name |-> table[i].name, match |-> match]
    ELSE FirstMatch(table, message, i, j + 1)

\* The end of generateChatbotResponse: the handler of the rule found, or the
\* fallback when the loops found none
Dispatch(hit, message, repoData, structure, cache) ==
    IF IsNull(hit) THEN Returned("none", FallbackText)
    ELSE Handle(hit.name, hit.match, message, repoData, structure, cache)

\* generateChatbotResponse with a guard that lets "help" through without a
\* repository
generateChatbotResponseHelpUnguarded(message, repoData, structure, cache) ==
    IF IsNull(repoData) /\ ToLower(message) # "help"
    THEN Returned("none", PleaseAnalyzeText)
    ELSE Dispatch(FirstMatch(intents, message, 1, 1), message, repoData, structure, cache)

\* generateChatbotResponse(message) up to its first suspension
generateChatbotResponse(message, repoData, structure, cache) ==
    IF IsNull(repoData) THEN Returned("none", PleaseAnalyzeText)
    ELSE Dispatch(FirstMatch(intents, message, 1, 1), message, repoData, structure, cache)

\* ------------------------------------------------------------------------
\* The conversation driver
\* ------------------------------------------------------------------------
\* addMessageToChat(sender, html, isTyping)
addMessageToChat(chat, sender, html, isTyping) ==
    Append(chat, [sender |-> sender, html |-> html, typing |-> isTyping])

\* document.querySelector('.chat-message.bot.typing'): the first such bubble
\* in document order, 0 for none
TypingMessage(chat) ==
    LET at == {n \in 1..Len(chat) : chat[n].sender = "bot" /\ chat[n].typing}
    IN  IF at = {} THEN 0 ELSE Min(at)

\* updateLastBotMessage that writes the text but leaves the bubble marked typing
updateLastBotMessageKeepsTyping(chat, html) ==
    IF TypingMessage(chat) # 0
    THEN [chat EXCEPT ![TypingMessage(chat)] = [sender |-> "bot", html |-> html, typing |-> TRUE]]
    ELSE chat

updateLastBotMessage(chat, html) ==
    IF TypingMessage(chat) # 0
    THEN [chat EXCEPT ![TypingMessage(chat)] = [sender |-> "bot", html |-> html, typing |-> FALSE]]
    ELSE chat

\* fetchFileContent(url) called by getFileContent
LogFetch(log, url) == [log EXCEPT ![url].calls = @ + 1]
LogFailure(log, url) == [log EXCEPT ![url].failures = @ + 1]

\* A turn after the step its call has taken
TurnAt(turn, step) ==
    [turn EXCEPT !.pc = step.pc, !.handler = step.handler, !.response = step.response,
                 !.functionName = step.functionName,
                 !.relevantFiles = step.relevantFiles, !.file = step.file,
                 !.fetched = IF step.pc = "getFileContent"
                             THEN Append(@, step.file.url) ELSE @]

\* A call of sendChatMessage as it starts
NewTurn(message) ==
    [message |-> message, hadContext |-> ~IsNull(chatbotRepoData),
     pc |-> "start", handler |-> "none", response |-> null,
     functionName |-> null, relevantFiles |-> <<>>, file |-> null,
     placeholder |-> Len(chatMessages) + 2, wrote |-> 0, fetched |-> <<>>]

\* Turn t, whose call has taken step, suspends: at a fetch, at its timer, or
\* for good when the call rejected
Suspend(t, turn, step) ==
    /\ turns' = [n \in 1..(IF t > Len(turns) THEN t ELSE Len(turns)) |->
                    IF n = t THEN TurnAt(turn, step) ELSE turns[n]]
    /\ timers' = IF step.pc = "timeout" THEN Append(timers, t) ELSE timers

\* sendChatMessage for a non-empty message: the two bubbles, then
\* generateChatbotResponse up to the first suspension (step)
SendMessage(message, step) ==
    /\ chatMessages' =
           addMessageToChat(addMessageToChat(chatMessages, "user", message, FALSE),
                            "bot", TypingIndicator, TRUE)
    /\ Suspend(Len(turns) + 1, NewTurn(message), step)
    /\ fetchLog' = IF step.pc = "getFileContent"
                   THEN LogFetch(fetchLog, step.file.url) ELSE fetchLog
    /\ UNCHANGED <<chatbotVars, fileContentCache, pageVars>>

\* sendChatMessage without its test for an empty message
SendTrimmedUnchecked(message) ==
    SendMessage(message,
                generateChatbotResponse(message, chatbotRepoData,
                                        chatbotRepoStructure, fileContentCache))

SendTrimmed(message) ==
    IF message = ""
    THEN UNCHANGED vars
    ELSE SendMessage(message,
                     generateChatbotResponse(message, chatbotRepoData,
                                             chatbotRepoStructure, fileContentCache))

\* sendChatMessage with raw in the input field, up to its first suspension
sendChatMessage(raw) == SendTrimmed(Trim(raw))

\* The handler of a turn from the content its getFileContent call returned
Resume(turn, content, cache) ==
    IF turn.handler = "list_dependencies"
    THEN Returned("list_dependencies", DependenciesFrom(content))
    ELSE ExplainLoop(turn.relevantFiles, turn.functionName, cache)

\* A cache that holds the last fetched text only
CacheSetOnly(cache, url, content) == [u \in {url} |-> content]

\* fileContentCache.set(url, content)
CacheSet(cache, url, content) ==
    [u \in DOMAIN cache \cup {url} |-> IF u = url THEN content ELSE cache[u]]

ResolveWith(t, cache, step) ==
    /\ fileContentCache' = cache
    /\ Suspend(t, turns[t], step)
    /\ fetchLog' = IF step.pc = "getFileContent"
                   THEN LogFetch(fetchLog, step.file.url) ELSE fetchLog
    /\ UNCHANGED <<chatbotVars, chatMessages, pageVars>>

\* The fetch awaited by getFileContent in turn t resolves with content: the
\* cache is written and the handler runs on to its next suspension
GetFileContentResolve(t, content) ==
    /\ turns[t].pc = "getFileContent"
    /\ content \in RemoteFile(turns[t].file.url)
    /\ ResolveWith(t, CacheSet(fileContentCache, turns[t].file.url, content),
                   Resume(turns[t], content,
                          CacheSet(fileContentCache, turns[t].file.url, content)))

\* The fetch awaited by getFileContent in turn t fails: getFileContent
\* rethrows; handleListDependencies catches, handleExplainCode does not, and
\* then generateChatbotResponse and sendChatMessage reject
Rejected(handler) == [Returned(handler, null) EXCEPT !.pc = "rejected"]

\* The handler of a turn from the error its getFileContent call threw
Recover(turn) ==
    IF turn.handler = "list_dependencies"
    THEN Returned("list_dependencies", TroubleReadingText)
    ELSE Rejected(turn.handler)

\* getFileContent storing an empty text for the locator whose fetch failed
GetFileContentRejectMemoized(t) ==
    /\ turns[t].pc = "getFileContent"
    /\ Suspend(t, turns[t], Recover(turns[t]))
    /\ fetchLog' = LogFailure(fetchLog, turns[t].file.url)
    /\ fileContentCache' = CacheSet(fileContentCache, turns[t].file.url, "")
    /\ UNCHANGED <<chatbotVars, chatMessages, pageVars>>

GetFileContentReject(t) ==
    /\ turns[t].pc = "getFileContent"
    /\ Suspend(t, turns[t], Recover(turns[t]))
    /\ fetchLog' = LogFailure(fetchLog, turns[t].file.url)
    /\ UNCHANGED <<chatbotVars, fileContentCache, chatMessages, pageVars>>

\* The oldest pending setTimeout callback runs: updateLastBotMessage(response)
TimeoutFire ==
    /\ timers # <<>>
    /\ LET t == Head(timers)
       IN  /\ chatMessages' = updateLastBotMessage(chatMessages, turns[t].response)
           /\ turns' = [turns EXCEPT ![t].pc = "done",
                                     ![t].wrote = TypingMessage(chatMessages)]
    /\ timers' = Tail(timers)
    /\ UNCHANGED <<chatbotVars, fileContentCache, fetchLog, pageVars>>

\* initChatbot(repoData, structure, languages)
initChatbot(repoData, structure, languages) ==
    /\ chatbotRepoData' = repoData
    /\ chatbotRepoStructure' = structure
    /\ chatbotLanguages' = languages
    /\ fileContentCache' = <<>>
    /\ fetchLog' = [u \in AllUrls |-> [calls |-> 0, failures |-> 0]]

\* ------------------------------------------------------------------------
\* The page: handleAnalysis and populateDashboard
\* ------------------------------------------------------------------------
\* new URL(url).pathname for the inputs of the model: an https URL without
\* query or fragment, or a text the URL constructor rejects (null here)
Pathname(url) ==
    IF ~StartsWithAt(url, 1, "https://") \/ Len(url) = 8 THEN null
    ELSE LET rest == SubSeq(url, 9, Len(url))
             at == {i \in 1..Len(rest) : CharAt(rest, i) = "/"}
         IN  IF at = {} THEN "/" ELSE SubSeq(rest, Min(at), Len(rest))

extractRepoInfo(url) ==
    LET path == Pathname(url)
        nonEmpty(part) == part # ""
        parts == IF IsNull(path) THEN <<>> ELSE Filter(Split(path, "/"), nonEmpty)
    IN  IF Len(parts) >= 2 THEN [owner |-> parts[1], repo |-> parts[2]] ELSE null

RepoKey(repoInfo) == repoInfo.owner \o "/" \o repoInfo.repo

\* ------------------------------------------------------------------------
\* createFileStructure: a directory is a function from names to nodes, a node
\* a file with its url and path or a folder with its children
\* ------------------------------------------------------------------------
\* currentLevel[part] = node
SetEntry(level, part, node) ==
    [key \in DOMAIN level \cup {part} |-> IF key = part THEN node ELSE level[key]]

\* The children of the folder the inner loop descends into at part: those
\* of the folder that is there, none when the entry is missing or a file
ChildrenAt(level, part) ==
    IF part \in DOMAIN level /\ level[part].type = "folder"
    THEN level[part].children
    ELSE <<>>

\* The pathParts.forEach of createFileStructure for one file, from level on
RECURSIVE Place(_, _, _)
Place(level, pathParts, file) ==
    IF Len(pathParts) = 1
    THEN SetEntry(level, Head(pathParts),
                  [type |-> "file", url |-> file.url, path |-> file.path])
    ELSE SetEntry(level, Head(pathParts),
                  [type |-> "folder",
                   children |-> Place(ChildrenAt(level, Head(pathParts)),
                                      Tail(pathParts), file)])

\* The fileList.forEach of createFileStructure from entry n on
RECURSIVE PlaceAll(_, _, _)
PlaceAll(fileStructure, fileList, n) ==
    IF n > Len(fileList) THEN fileStructure
    ELSE PlaceAll(Place(fileStructure, Split(fileList[n].path, "/"), fileList[n]),
                  fileList, n + 1)

createFileStructure(fileList) == PlaceAll(<<>>, fileList, 1)

\* What fetchReadme(owner, repo) can return: the decoded README, the text
\* for a response that is not ok, the text for a failed request
RemoteReadme(key) ==
    CASE key = "ann/alpha" -> "# alpha"
      [] key = "bob/beta" -> "No README found."
      [] key = "cat/gamma" -> "No README found."
      [] key = "dan/delta" -> "No README found."
      [] key = "eve/epsilon" -> "# epsilon"
      [] key = "fay/zeta" -> "No README found."

FetchReadmeResults(key) == {RemoteReadme(key), "Error fetching README."}

\* showLoading(message) and hideLoading()
showLoading(v, message) == [v EXCEPT !.loading = TRUE, !.loadingMessage = message]
hideLoading(v) == [v EXCEPT !.loading = FALSE]

\* handleAnalysis with url in the URL field, up to its first await
handleAnalysis(url) ==
    LET repoInfo == extractRepoInfo(url)
    IN  IF IsNull(repoInfo)
        THEN UNCHANGED vars
        ELSE /\ view' = showLoading(view, "Analyzing repository...")
             /\ analyses' = Append(analyses, [repoInfo |-> repoInfo, pc |-> "data"])
             /\ UNCHANGED <<chatbotVars, fileContentCache, chatVars, fetchLog,
                            currentRepoData, currentRepoLanguages, currentRepoStructure,
                            readmeRequests, fileRequests>>

\* Promise.all of fetchRepositoryData and fetchLanguages resolves for
\* analysis a: the two closure variables are assigned and the structure is
\* requested
AnalysisDataResolve(a) ==
    /\ analyses[a].pc = "data"
    /\ RepoKey(analyses[a].repoInfo) \in RepoKeys
    /\ currentRepoData' = RemoteRepoData(RepoKey(analyses[a].repoInfo))
    /\ currentRepoLanguages' = RemoteLanguages(RepoKey(analyses[a].repoInfo))
    /\ view' = showLoading(view, "Fetching file structure...")
    /\ analyses' = [analyses EXCEPT ![a].pc = "structure"]
    /\ UNCHANGED <<chatbotVars, fileContentCache, chatVars, fetchLog, currentRepoStructure,
                   readmeRequests, fileRequests>>

\* An await of analysis a rejects: the catch block alerts, finally hides the
\* overlay
AnalysisReject(a) ==
    /\ analyses[a].pc \in {"data", "structure"}
    /\ view' = hideLoading(view)
    /\ analyses' = [analyses EXCEPT ![a].pc = "failed"]
    /\ UNCHANGED <<chatbotVars, fileContentCache, chatVars, fetchLog,
                   currentRepoData, currentRepoLanguages, currentRepoStructure,
                   readmeRequests, fileRequests>>

\* populateDashboard() on the closure variables, structure being
\* currentRepoStructure: the header, the file tree, the fetchReadme call
\* whose result is awaited by nobody, the clone command
populateDashboard(v, repoData, structure) ==
    [v EXCEPT !.repoName = repoData.full_name,
              !.repoOwner = repoData.owner.login,
              !.fileTree = createFileStructure(structure),
              !.cloneCommand = "git clone " \o repoData.clone_url]

\* fetchRepositoryStructure resolves for analysis a: the listing is assigned,
\* populateDashboard runs on the closure variables as they are now, the
\* dashboard is shown and finally hides the overlay
AnalysisStructureResolve(a) ==
    LET structure == RemoteTree(RepoKey(analyses[a].repoInfo))
    IN  /\ analyses[a].pc = "structure"
        /\ currentRepoStructure' = structure
        /\ initChatbot(currentRepoData, structure, currentRepoLanguages)
        /\ readmeRequests' =
               Append(readmeRequests,
                      [owner |-> currentRepoData.owner.login,
                       repo |-> currentRepoData.name, pc |-> "fetch"])
        /\ view' = [hideLoading(populateDashboard(view, currentRepoData, structure))
                        EXCEPT !.dashboard = TRUE]
        /\ analyses' = [analyses EXCEPT ![a].pc = "done"]
        /\ UNCHANGED <<chatVars, currentRepoData, currentRepoLanguages, fileRequests>>

\* marked.parse(content): the HTML the library renders for a Markdown text
MarkedParse(content) == [markdown |-> content]

\* The fetchReadme call r resolves with content (fetchReadme never rejects):
\* the README pane is rewritten
ReadmeResolve(r, content) ==
    /\ readmeRequests[r].pc = "fetch"
    /\ content \in FetchReadmeResults(readmeRequests[r].owner \o "/" \o readmeRequests[r].repo)
    /\ view' = [view EXCEPT !.readmeContent = MarkedParse(content)]
    /\ readmeRequests' = [readmeRequests EXCEPT ![r].pc = "done"]
    /\ UNCHANGED <<chatbotVars, fileContentCache, chatVars, fetchLog, fileRequests,
                   currentRepoData, currentRepoLanguages, currentRepoStructure, analyses>>

\* ------------------------------------------------------------------------
\* The code viewer
\* ------------------------------------------------------------------------
\* displayFileContent(path, content)
displayFileContent(v, path, content) ==
    [v EXCEPT !.currentFile = path, !.codeDisplay = content]

\* The li.file elements renderFileTree made for a tree, by their dataset
RECURSIVE FileElements(_)
FileElements(directory) ==
    UNION { IF directory[key].type = "folder"
            THEN FileElements(directory[key].children)
            ELSE {[url |-> directory[key].url, path |-> directory[key].path]} :
            key \in DOMAIN directory }

\* s.indexOf(p) + 1: the first position of p in s, 0 for none
IndexOf(s, p) ==
    IF Includes(s, p) THEN Min({i \in 1..(Len(s) + 1) : StartsWithAt(s, i, p)}) ELSE 0

\* The value of attribute name in the one tag of html that carries it
AttrFrom(html, start) ==
    SubSeq(html, start, start + IndexOf(SubSeq(html, start, Len(html)), "\"") - 2)

Attr(html, name) ==
    AttrFrom(html, IndexOf(html, " " \o name \o "=\"") + Len(name) + 3)

\* The button.chat-action-btn elements of the chat, by the bubble they are in
ChatActionButtons ==
    {n \in 1..Len(chatMessages) :
        Includes(chatMessages[n].html, "<button class=\"chat-action-btn\"")}

\* fetchFileContent(url) fails: the message of the error it throws
FileContentError == "Could not fetch file content. Status: 404"

\* A click on the li.file element el of the tree, up to its await
FileClick(el) ==
    /\ ~IsNull(view.fileTree)
    /\ el \in FileElements(view.fileTree)
    /\ view' = [view EXCEPT !.selected = el.path,
                            !.currentFile = "Loading...", !.codeDisplay = ""]
    /\ fileRequests' = Append(fileRequests,
                              [from |-> "tree", url |-> el.url, path |-> el.path,
                               pc |-> "fetch"])
    /\ UNCHANGED <<chatbotVars, fileContentCache, chatVars, fetchLog, readmeRequests,
                   currentRepoData, currentRepoLanguages, currentRepoStructure, analyses>>

\* The listener of #chat-messages for a click on the button of bubble n,
\* with the dataset read off the button, up to its await
ChatAction(action, url, path) ==
    IF action # "view-file"
    THEN UNCHANGED vars
    ELSE /\ view' = [view EXCEPT !.tab = "structure",
                                 !.currentFile = "Loading " \o path \o "...",
                                 !.codeDisplay = ""]
         /\ fileRequests' = Append(fileRequests,
                                   [from |-> "chat", url |-> url, path |-> path,
                                    pc |-> "fetch"])
         /\ UNCHANGED <<chatbotVars, fileContentCache, chatVars, fetchLog, readmeRequests,
                        currentRepoData, currentRepoLanguages, currentRepoStructure,
                        analyses>>

ChatActionClick(n) ==
    /\ n \in ChatActionButtons
    /\ ChatAction(Attr(chatMessages[n].html, "data-action"),
                  Attr(chatMessages[n].html, "data-url"),
                  Attr(chatMessages[n].html, "data-path"))

\* The fetchFileContent awaited by file request r resolves with content
FileFetchResolve(r, content) ==
    /\ fileRequests[r].pc = "fetch"
    /\ content \in RemoteFile(fileRequests[r].url)
    /\ view' = displayFileContent(view, fileRequests[r].path, content)
    /\ fileRequests' = [fileRequests EXCEPT ![r].pc = "done"]
    /\ UNCHANGED <<chatbotVars, fileContentCache, chatVars, fetchLog, readmeRequests,
                   currentRepoData, currentRepoLanguages, currentRepoStructure, analyses>>

\* The fetchFileContent awaited by file request r rejects: the catch block
\* of the listener that made it
FileFetchReject(r) ==
    /\ fileRequests[r].pc = "fetch"
    /\ view' = IF fileRequests[r].from = "tree"
               THEN [view EXCEPT !.currentFile = "Error loading " \o fileRequests[r].path]
               ELSE displayFileContent(view, fileRequests[r].path,
                                       "Error loading file: " \o FileContentError)
    /\ fileRequests' = [fileRequests EXCEPT ![r].pc = "failed"]
    /\ UNCHANGED <<chatbotVars, fileContentCache, chatVars, fetchLog, readmeRequests,
                   currentRepoData, currentRepoLanguages, currentRepoStructure, analyses>>

\* ------------------------------------------------------------------------
\* Inputs
\* ------------------------------------------------------------------------
\* What the user types into the URL field
UrlInputs ==
    {"https://github.com/ann/alpha", "https://github.com/bob/beta",
     "https://github.com/ann", "github.com/ann/alpha"}

\* What the user types into the chat field while analyses and turns overlap
ChatInputs == {"hi", "What are the dependencies?", "what does foo do", "   "}

\* What the user types into the chat field, one turn at a time
ClassifyInputs ==
    {"hi", "Hello", " hi ", "help", "what can you do?", "about the owner",
     "What is this project about?", "Show me the package.json file",
     "find package.json", "find missing.txt", "get the dependencies",
     "What are the dependencies?", "which libs?",
     "What does the 'handleAnalysis' function do?",
     "explain the " \o BackTick \o "foo" \o BackTick \o " function",
     "explain " \o BackTick \o "foo" \o BackTick \o " function",
     "what does foo do", "How does 'bar' method work", "what does main do",
     "Who is the owner?", "what does the owner do", "forks and stars",
     "license", "thanks", "", "  ",
     "find helper.js", "find HELPER.JS", "find GUIDE.MD", "open PACKAGE.JSON",
     "license and stars", "license, forks, stars and author",
     "LICENSE of the repo", "which branch?"}

\* ------------------------------------------------------------------------
\* Specifications
\* ------------------------------------------------------------------------
NoLog == [u \in AllUrls |-> [calls |-> 0, failures |-> 0]]

\* The page as loaded; null stands for what the markup, which is not part of
\* the scripts, puts there
NoView ==
    [loading |-> FALSE, loadingMessage |-> "", dashboard |-> FALSE,
     repoName |-> "", repoOwner |-> "", cloneCommand |-> "",
     tab |-> null, fileTree |-> null, selected |-> null,
     currentFile |-> null, codeDisplay |-> "", readmeContent |-> null]

\* The page after the analysis of repository key and the arrival of its README
Analyzed(key) ==
    [populateDashboard(NoView, RemoteRepoData(key), RemoteTree(key)) EXCEPT
        !.loadingMessage = "Fetching file structure...",
        !.dashboard = TRUE,
        !.readmeContent = MarkedParse(RemoteReadme(key))]

\* The page as loaded
Init ==
    /\ chatbotRepoData = null
    /\ chatbotRepoStructure = null
    /\ chatbotLanguages = null
    /\ fileContentCache = <<>>
    /\ chatMessages = <<>>
    /\ turns = <<>>
    /\ timers = <<>>
    /\ fetchLog = NoLog
    /\ currentRepoData = null
    /\ currentRepoLanguages = null
    /\ currentRepoStructure = null
    /\ analyses = <<>>
    /\ view = NoView
    /\ readmeRequests = <<>>
    /\ fileRequests = <<>>

Next ==
    \/ \E url \in UrlInputs : Len(analyses) < MaxAnalyses /\ handleAnalysis(url)
    \/ \E a \in 1..Len(analyses) : AnalysisDataResolve(a)
    \/ \E a \in 1..Len(analyses) : AnalysisReject(a)
    \/ \E a \in 1..Len(analyses) : AnalysisStructureResolve(a)
    \/ \E raw \in ChatInputs : Len(turns) < MaxTurns /\ sendChatMessage(raw)
    \/ \E t \in 1..Len(turns), content \in UNION {RemoteFile(u) : u \in AllUrls} :
           GetFileContentResolve(t, content)
    \/ \E t \in 1..Len(turns) : GetFileContentReject(t)
    \/ TimeoutFire

Spec == Init /\ [][Next]_vars

\* The chat alone, one turn at a time, on the page as loaded or after the
\* analysis of one repository
InitClassify ==
    /\ \E key \in RepoKeys \cup {"none"} :
          /\ chatbotRepoData = IF key = "none" THEN null ELSE RemoteRepoData(key)
          /\ chatbotRepoStructure = IF key = "none" THEN null ELSE RemoteTree(key)
          /\ chatbotLanguages = IF key = "none" THEN null ELSE RemoteLanguages(key)
          /\ currentRepoData = chatbotRepoData
          /\ currentRepoStructure = chatbotRepoStructure
          /\ currentRepoLanguages = chatbotLanguages
          /\ analyses = IF key = "none" THEN <<>>
                        ELSE <<[repoInfo |-> [owner |-> RemoteRepoData(key).owner.login,
                                              repo |-> RemoteRepoData(key).name],
                                pc |-> "done"]>>
          /\ view = IF key = "none" THEN NoView ELSE Analyzed(key)
          /\ readmeRequests =
                 IF key = "none" THEN <<>>
                 ELSE <<[owner |-> RemoteRepoData(key).owner.login,
                         repo |-> RemoteRepoData(key).name, pc |-> "done"]>>
    /\ fileRequests = <<>>
    /\ fileContentCache = <<>>
    /\ chatMessages = <<>>
    /\ turns = <<>>
    /\ timers = <<>>
    /\ fetchLog = NoLog

TurnsSettled == \A t \in 1..Len(turns) : turns[t].pc \in {"done", "rejected"}

NextClassify ==
    \/ \E raw \in ClassifyInputs :
           Len(turns) < MaxClassifyTurns /\ TurnsSettled /\ sendChatMessage(raw)
    \/ \E t \in 1..Len(turns), content \in UNION {RemoteFile(u) : u \in AllUrls} :
           GetFileContentResolve(t, content)
    \/ \E t \in 1..Len(turns) : GetFileContentReject(t)
    \/ TimeoutFire

SpecClassify == InitClassify /\ [][NextClassify]_vars

\* The chat with overlapping turns while one repository is analyzed again:
\* the page after the analysis of ann/alpha, whose fetches for a further
\* analysis succeed
CacheUrlInputs == {"https://github.com/ann/alpha"}

CacheChatInputs == {"What are the dependencies?", "what does main do", "   "}

InitCache ==
    /\ chatbotRepoData = RemoteRepoData("ann/alpha")
    /\ chatbotRepoStructure = RemoteTree("ann/alpha")
    /\ chatbotLanguages = RemoteLanguages("ann/alpha")
    /\ currentRepoData = chatbotRepoData
    /\ currentRepoStructure = chatbotRepoStructure
    /\ currentRepoLanguages = chatbotLanguages
    /\ analyses = <<[repoInfo |-> [owner |-> "ann", repo |-> "alpha"], pc |-> "done"]>>
    /\ view = Analyzed("ann/alpha")
    /\ readmeRequests = <<[owner |-> "ann", repo |-> "alpha", pc |-> "done"]>>
    /\ fileRequests = <<>>
    /\ fileContentCache = <<>>
    /\ chatMessages = <<>>
    /\ turns = <<>>
    /\ timers = <<>>
    /\ fetchLog = NoLog

NextCache ==
    \/ \E url \in CacheUrlInputs : Len(analyses) < MaxCacheAnalyses /\ handleAnalysis(url)
    \/ \E a \in 1..Len(analyses) : AnalysisDataResolve(a)
    \/ \E a \in 1..Len(analyses) : AnalysisStructureResolve(a)
    \/ \E raw \in CacheChatInputs : Len(turns) < MaxCacheTurns /\ sendChatMessage(raw)
    \/ \E t \in 1..Len(turns), content \in UNION {RemoteFile(u) : u \in AllUrls} :
           GetFileContentResolve(t, content)
    \/ \E t \in 1..Len(turns) : GetFileContentReject(t)
    \/ TimeoutFire

SpecCache == InitCache /\ [][NextCache]_vars

\* The chat with overlapping turns when every fetch succeeds: the page after
\* the analysis of ann/alpha.  A pending setTimeout callback is run by the
\* event loop, and an awaited fetch that succeeds settles its promise, so
\* both steps are weakly fair; submissions are the user's and are not.
LiveChatInputs ==
    {"What are the dependencies?", "what does main do", "hello", "Who is the owner?", "   "}

NextLive ==
    \/ \E raw \in LiveChatInputs : Len(turns) < MaxLiveTurns /\ sendChatMessage(raw)
    \/ \E t \in 1..Len(turns), content \in UNION {RemoteFile(u) : u \in AllUrls} :
           GetFileContentResolve(t, content)
    \/ TimeoutFire

FetchSucceeds ==
    \E t \in 1..Len(turns), content \in UNION {RemoteFile(u) : u \in AllUrls} :
        GetFileContentResolve(t, content)

\* FetchSucceeds is enabled exactly when some turn awaits a fetch (every
\* locator has a text, and the step moves the turn on)
FetchPending == \E t \in 1..Len(turns) : turns[t].pc = "getFileContent"

\* Weak fairness of FetchSucceeds, with its enabling condition written out
FetchFair == []<>(~FetchPending) \/ []<><<FetchSucceeds>>_vars

SpecLive ==
    InitCache /\ [][NextLive]_vars /\ WF_vars(TimeoutFire) /\ FetchFair

\* The analysis workflow alone, one analysis at a time, with the README
\* requests it leaves behind answered at any later time
PageUrlInputs ==
    {"https://github.com/ann/alpha", "https://github.com/eve/epsilon",
     "https://github.com/ann"}

NextPage ==
    \/ \E url \in PageUrlInputs :
           /\ Len(analyses) < MaxPageAnalyses
           /\ \A a \in 1..Len(analyses) : analyses[a].pc \in {"done", "failed"}
           /\ handleAnalysis(url)
    \/ \E a \in 1..Len(analyses) : AnalysisDataResolve(a)
    \/ \E a \in 1..Len(analyses) : AnalysisReject(a)
    \/ \E a \in 1..Len(analyses) : AnalysisStructureResolve(a)
    \/ \E r \in 1..Len(readmeRequests),
          content \in UNION {FetchReadmeResults(key) : key \in RepoKeys} :
           ReadmeResolve(r, content)

SpecPage == Init /\ [][NextPage]_vars

\* The code viewer on the page after the analysis of ann/alpha: clicks on the
\* files of the tree and on the buttons the chat has offered
ViewerChatInputs == {"find package.json", "find app.js", "hi"}

\* The li.file elements of the tree on the page
TreeFileElements == IF IsNull(view.fileTree) THEN {} ELSE FileElements(view.fileTree)

NextViewer ==
    \/ \E el \in TreeFileElements : Len(fileRequests) < MaxFileRequests /\ FileClick(el)
    \/ \E n \in 1..Len(chatMessages) :
           Len(fileRequests) < MaxFileRequests /\ ChatActionClick(n)
    \/ \E r \in 1..Len(fileRequests), content \in UNION {RemoteFile(u) : u \in AllUrls} :
           FileFetchResolve(r, content)
    \/ \E r \in 1..Len(fileRequests) : FileFetchReject(r)
    \/ \E raw \in ViewerChatInputs : Len(turns) < MaxViewerTurns /\ sendChatMessage(raw)
    \/ TimeoutFire

SpecViewer == InitCache /\ [][NextViewer]_vars

\* createFileStructure on its own: the listings of at most MaxListing of
\* these entries, in any order
TreeEntries ==
    { [path |-> "src", url |-> "trees/s"],
      [path |-> "src/a.js", url |-> "blobs/t1"],
      [path |-> "src/lib", url |-> "trees/l"],
      [path |-> "src/lib/b.js", url |-> "blobs/t2"],
      [path |-> "README.md", url |-> "blobs/t3"] }

Listings ==
    UNION { {l \in [1..n -> TreeEntries] : \A i, j \in 1..n : l[i] = l[j] => i = j} :
            n \in 1..MaxListing }

InitTree ==
    /\ currentRepoStructure \in Listings
    /\ chatbotRepoData = null
    /\ chatbotRepoStructure = null
    /\ chatbotLanguages = null
    /\ fileContentCache = <<>>
    /\ chatMessages = <<>>
    /\ turns = <<>>
    /\ timers = <<>>
    /\ fetchLog = NoLog
    /\ currentRepoData = null
    /\ currentRepoLanguages = null
    /\ analyses = <<>>
    /\ view = NoView
    /\ readmeRequests = <<>>
    /\ fileRequests = <<>>

\* The Structure Tab step of populateDashboard
renderFileTree ==
    /\ IsNull(view.fileTree)
    /\ view' = [view EXCEPT !.fileTree = createFileStructure(currentRepoStructure)]
    /\ UNCHANGED <<chatbotVars, fileContentCache, chatVars, fetchLog, readmeRequests,
                   fileRequests, currentRepoData, currentRepoLanguages,
                   currentRepoStructure, analyses>>

SpecTree == InitTree /\ [][renderFileTree]_vars

\* ------------------------------------------------------------------------
\* Properties
\* ------------------------------------------------------------------------
Settled(t) == turns[t].pc = "done"

\* The bubble appended right after the user message of turn t
Bubble(t) == chatMessages[turns[t].placeholder]

\* C1: within one active context every locator is fetched at most once with
\* success, however the calls of getFileContent for it interleave: a second
\* call never starts a fetch that the first one's result would have served.
FetchedOnce ==
    \A u \in AllUrls : fetchLog[u].calls - fetchLog[u].failures <= 1

\* C2: the response computed for a turn is written into the placeholder that
\* the same turn appended, and into no other bubble.
OwnPlaceholder ==
    \A t \in 1..Len(turns) :
        Settled(t) => /\ turns[t].wrote = turns[t].placeholder
                      /\ Bubble(t).html = turns[t].response

\* C3: generateChatbotResponse never rejects: no turn ends with its call
\* rejected and its placeholder left pending.
NeverRejects ==
    \A t \in 1..Len(turns) : turns[t].pc # "rejected"

\* C4: every key of the content cache is a locator of the file listing of the
\* current context: no handler of a replaced context writes into the cache.
CacheOfCurrentContext ==
    \A u \in DOMAIN fileContentCache :
        /\ ~IsNull(chatbotRepoStructure)
        /\ \E n \in 1..Len(chatbotRepoStructure) : chatbotRepoStructure[n].url = u

\* C5: the chatbot's metadata, file listing and language map are all unset or
\* all those of one and the same repository, hence of one analysis run.
ContextWholesale ==
    \/ IsNull(chatbotRepoData) /\ IsNull(chatbotRepoStructure) /\ IsNull(chatbotLanguages)
    \/ \E key \in RepoKeys :
          /\ chatbotRepoData = RemoteRepoData(key)
          /\ chatbotRepoStructure = RemoteTree(key)
          /\ chatbotLanguages = RemoteLanguages(key)

\* C6: at most one analysis is awaiting its fetches at any time.
AnalysesSerialized ==
    Cardinality({a \in 1..Len(analyses) : analyses[a].pc \in {"data", "structure"}}) <= 1

\* C7: a message sent while no repository is analyzed gets the fixed
\* "Please analyze a repository first." text, "help" and "hi" included, and
\* runs no intent handler, no file lookup and no fetch.
NoActiveContext ==
    \A t \in 1..Len(turns) :
        ~turns[t].hadContext =>
            /\ turns[t].response = PleaseAnalyzeText
            /\ turns[t].handler = "none"
            /\ IsNull(turns[t].file) /\ turns[t].relevantFiles = <<>>
            /\ turns[t].fetched = <<>>
            /\ Settled(t) => Bubble(t).html = PleaseAnalyzeText

NoActiveContextHelp ==
    \E t \in 1..Len(turns) :
        /\ turns[t].message = "help" /\ ~turns[t].hadContext /\ Settled(t)
        /\ Bubble(t).html = PleaseAnalyzeText

\* The rules in the order the table is declared to have
RuleOrder ==
    <<"greet", "about", "find_file", "list_dependencies", "explain_code",
      "get_metadata", "help">>

\* Some pattern of the rule called name matches message
RuleMatches(name, message) ==
    \E i \in 1..Len(intents) :
        /\ intents[i].name = name
        /\ \E j \in 1..Len(intents[i].patterns) :
               Match(intents[i].patterns[j], message) # NoMatch

MatchingRules(message) ==
    {k \in 1..Len(RuleOrder) : RuleMatches(RuleOrder[k], message)}

\* C8: with a repository analyzed, the one handler that runs for a message is
\* that of the first rule, in declared order, with a matching pattern; a
\* message that the about and the get_metadata patterns both match is
\* answered by about.
FirstMatchWins ==
    \A t \in 1..Len(turns) :
        turns[t].hadContext /\ MatchingRules(turns[t].message) # {} =>
            turns[t].handler = RuleOrder[Min(MatchingRules(turns[t].message))]

AboutBeforeMetadata ==
    \E t \in 1..Len(turns) :
        /\ turns[t].hadContext /\ Settled(t)
        /\ RuleMatches("about", turns[t].message)
        /\ RuleMatches("get_metadata", turns[t].message)
        /\ turns[t].handler = "about"
        /\ Bubble(t).html = AboutText(chatbotRepoData)

\* C9: with a repository analyzed, a message gets the fixed fallback text if
\* and only if no pattern of any rule matches it.
FallbackIffNoMatch ==
    \A t \in 1..Len(turns) :
        turns[t].hadContext /\ turns[t].pc \in {"timeout", "done"} =>
            (turns[t].response = FallbackText <=> MatchingRules(turns[t].message) = {})

FallbackGiven ==
    \E t \in 1..Len(turns) :
        /\ turns[t].hadContext /\ Settled(t)
        /\ turns[t].message = "thanks"
        /\ Bubble(t).html = FallbackText

\* The locators of the script files of a listing, in listing order
ScriptUrls(structure) ==
    LET isScript(file) == EndsWith(file.path, ".js")
    IN  [n \in 1..Len(Filter(structure, isScript)) |-> Filter(structure, isScript)[n].url]

ExplainTheFoo == "explain the " \o BackTick \o "foo" \o BackTick \o " function"

\* C10: in a repository none of whose script files declares foo, the message
\* "explain the `foo` function" is answered with the not-found message for
\* foo after every script file was fetched in listing order.
ExplainTheFooNotFound ==
    \A t \in 1..Len(turns) :
        /\ turns[t].message = ExplainTheFoo
        /\ chatbotRepoData = RemoteRepoData("bob/beta")
        /\ turns[t].hadContext /\ Settled(t)
        => /\ turns[t].response = FunctionNotFoundText("foo")
           /\ turns[t].fetched = ScriptUrls(chatbotRepoStructure)

\* A step in which the fetch of locator u fails
FetchFails(u) == fetchLog'[u].failures > fetchLog[u].failures

\* Some caller awaiting locator u gets the error in this step: its handler
\* catches it, or its call rejects
ErrorReachesCaller(u) ==
    \E t \in 1..Len(turns) :
        /\ turns[t].pc = "getFileContent" /\ turns[t].file.url = u
        /\ \/ turns'[t].pc = "rejected"
           \/ turns'[t].pc = "timeout" /\ turns'[t].response = TroubleReadingText

\* C11: a failed fetch is never memoized: the step in which fetchFileContent
\* fails hands the error to the caller and leaves the cache as it was, the
\* cache never holds anything but fetched contents, so the next call for the
\* locator fetches again.
FailureNotMemoized ==
    /\ [](\A u \in DOMAIN fileContentCache : fileContentCache[u] \in RemoteFile(u))
    /\ [][\A u \in AllUrls :
              FetchFails(u) => /\ fileContentCache' = fileContentCache
                               /\ u \notin DOMAIN fileContentCache'
                                     \/ fileContentCache'[u] \in RemoteFile(u)
                               /\ ErrorReachesCaller(u)]_vars

\* A turn whose fetch of the manifest failed is followed by a turn that
\* fetched it again and listed the dependencies
FetchedAgainAfterFailure ==
    \E t1, t2 \in 1..Len(turns) :
        /\ t1 < t2
        /\ turns[t1].response = TroubleReadingText /\ turns[t1].fetched = <<"blobs/a3">>
        /\ turns[t2].fetched = <<"blobs/a3">> /\ Settled(t2)
        /\ turns[t2].response = DependenciesFrom(fileContentCache["blobs/a3"])

\* A step of initChatbot: an analysis installs its context
ContextReplaced ==
    \E a \in 1..Len(analyses) : analyses[a].pc = "structure" /\ analyses'[a].pc = "done"

\* C12: between two context replacements the cache is add-only and its
\* values are immutable: no step other than initChatbot removes an entry or
\* gives a cached locator another text.
CacheAddOnly ==
    [][ContextReplaced \/
       \A u \in DOMAIN fileContentCache :
           u \in DOMAIN fileContentCache' /\ fileContentCache'[u] = fileContentCache[u]]_vars

\* A second locator was stored next to the first, which is still there
\* with the text fetched for it
SecondEntryAdded ==
    /\ DOMAIN fileContentCache = {"blobs/a1", "blobs/a3"}
    /\ \A u \in DOMAIN fileContentCache : fileContentCache[u] \in RemoteFile(u)
    /\ \A t \in 1..Len(turns) : Settled(t)

\* Turn t calls getFileContent in this step and is left awaiting its fetch
StartsAwait(t) ==
    /\ turns'[t].pc = "getFileContent"
    /\ t > Len(turns) \/ turns'[t].fetched # turns[t].fetched

\* The fetch that turn t awaits resolves in this step
EndsAwait(t) ==
    /\ t <= Len(turns) /\ turns[t].pc = "getFileContent"
    /\ turns'[t] # turns[t]
    /\ ~FetchFails(turns[t].file.url)

\* A message is submitted in this step, with the manifest of the listing
\* already cached, and is answered by list_dependencies
AsksWithManifestCached ==
    /\ Len(turns') > Len(turns)
    /\ turns'[Len(turns')].handler = "list_dependencies"
    /\ ~IsNull(findFileInStructure(chatbotRepoStructure, "package.json"))
    /\ findFileInStructure(chatbotRepoStructure, "package.json").url
           \in DOMAIN fileContentCache

\* C13: getFileContent on a miss calls fetchFileContent once, stores the
\* text that arrives under the locator and returns it to the handler; on a
\* hit it returns the stored text and fetchFileContent is not called.
MissFetchesHitReturns ==
    [][/\ \A t \in 1..Len(turns') :
              StartsAwait(t) =>
                  /\ turns'[t].file.url \notin DOMAIN fileContentCache'
                  /\ fetchLog'[turns'[t].file.url].calls
                         = fetchLog[turns'[t].file.url].calls + 1
       /\ \A t \in 1..Len(turns') :
              EndsAwait(t) =>
                  /\ turns[t].file.url \in DOMAIN fileContentCache'
                  /\ fileContentCache'[turns[t].file.url] \in RemoteFile(turns[t].file.url)
                  /\ turns[t].handler = "list_dependencies" =>
                         turns'[t].response
                             = DependenciesFrom(fileContentCache'[turns[t].file.url])
       /\ \A u \in DOMAIN fileContentCache : fetchLog'[u].calls <= fetchLog[u].calls
       /\ AsksWithManifestCached =>
              /\ turns'[Len(turns')].pc = "timeout"
              /\ turns'[Len(turns')].fetched = <<>>
              /\ turns'[Len(turns')].response
                     = DependenciesFrom(fileContentCache[
                           findFileInStructure(chatbotRepoStructure, "package.json").url])
              /\ fetchLog' = fetchLog]_vars

\* A dependencies question was answered from the cache, after an earlier
\* one had fetched the manifest
AnsweredFromCache ==
    \E t1, t2 \in 1..Len(turns) :
        /\ turns[t1].fetched = <<"blobs/a3">>
        /\ turns[t2].handler = "list_dependencies" /\ turns[t2].fetched = <<>>
        /\ Settled(t2) /\ "blobs/a3" \in DOMAIN fileContentCache
        /\ Bubble(t2).html = DependenciesFrom(fileContentCache["blobs/a3"])
        /\ fetchLog["blobs/a3"].calls = 1

\* What the user can submit that is empty once trimmed
BlankInputs == {raw \in CacheChatInputs \cup ClassifyInputs : Trim(raw) = ""}

\* C14: an empty or whitespace-only submission changes nothing: it appends
\* no user message and no placeholder, starts no call of
\* generateChatbotResponse and schedules no update; so every turn has a
\* non-empty message and the conversation holds two bubbles per turn.
BlankSubmissionIgnored ==
    /\ [](/\ Len(chatMessages) = 2 * Len(turns)
          /\ \A t \in 1..Len(turns) :
                 /\ turns[t].message # ""
                 /\ chatMessages[2 * t - 1] =
                        [sender |-> "user", html |-> turns[t].message, typing |-> FALSE])
    /\ [][\A raw \in BlankInputs : sendChatMessage(raw) => UNCHANGED vars]_vars

\* A conversation under way in which a whitespace-only submission is a step
\* that leaves every variable as it is
BlankSubmissionDuringChat ==
    /\ chatMessages # <<>> /\ timers # <<>> /\ Len(turns) < MaxCacheTurns
    /\ "   " \in BlankInputs \cap CacheChatInputs
    /\ ENABLED (sendChatMessage("   ") /\ UNCHANGED vars)

\* The file name that the find_file pattern captures in the message of turn t
RequestedToken(t) == MatchFindFile(turns[t].message)[3]

\* Turn t has run handleFindFile on the listing of the repository analyzed
FindFileTurn(t) ==
    turns[t].hadContext /\ turns[t].handler = "find_file"

\* The entries of the listing whose whole path is the token, letter case
\* aside, and those whose last segments are "/" and the token
ExactEntries(token) ==
    {n \in 1..Len(chatbotRepoStructure) :
        ToLower(chatbotRepoStructure[n].path) = ToLower(token)}

SuffixEntries(token) ==
    {n \in 1..Len(chatbotRepoStructure) :
        EndsWith(ToLower(chatbotRepoStructure[n].path), "/" \o ToLower(token))}

\* C15: when some entry's whole path equals the fragment, letter case aside,
\* that entry is the one found, also when an entry listed earlier matches
\* by suffix.
ExactBeforeSuffix ==
    \A t \in 1..Len(turns) :
        FindFileTurn(t) /\ ExactEntries(RequestedToken(t)) # {} =>
            turns[t].response =
                FileFoundText(chatbotRepoStructure[Min(ExactEntries(RequestedToken(t)))])

ExactAfterSuffixFound ==
    \E t \in 1..Len(turns) :
        /\ FindFileTurn(t) /\ Settled(t) /\ turns[t].message = "find package.json"
        /\ \E n \in SuffixEntries("package.json"), m \in ExactEntries("package.json") :
               /\ n < m
               /\ chatbotRepoStructure[n].path = "src/package.json"
               /\ Bubble(t).html = FileFoundText(chatbotRepoStructure[m])

\* C16: with no exact match, the entry found is the first in listing order
\* whose path ends with "/" and the fragment, letter case aside.
FirstSuffixEntry ==
    \A t \in 1..Len(turns) :
        /\ FindFileTurn(t)
        /\ ExactEntries(RequestedToken(t)) = {}
        /\ SuffixEntries(RequestedToken(t)) # {}
        => turns[t].response =
               FileFoundText(chatbotRepoStructure[Min(SuffixEntries(RequestedToken(t)))])

FirstOfTwoSuffixEntries ==
    \E t \in 1..Len(turns) :
        /\ FindFileTurn(t) /\ Settled(t) /\ turns[t].message = "find HELPER.JS"
        /\ ExactEntries("HELPER.JS") = {}
        /\ Cardinality(SuffixEntries("HELPER.JS")) = 2
        /\ Bubble(t).html =
               FileFoundText([path |-> "lib/utils/helper.js", url |-> "blobs/g4"])

\* The identifier that the explain_code pattern captures in the message of
\* turn t
RequestedFunction(t) == MatchExplainCode(turns[t].message)[2]

\* Some script file of the listing declares functionName
DeclaredSomewhere(functionName) ==
    \E n \in 1..Len(chatbotRepoStructure) :
        /\ EndsWith(chatbotRepoStructure[n].path, ".js")
        /\ \E content \in RemoteFile(chatbotRepoStructure[n].url) :
               FunctionRegexTest(content, functionName)

\* C17: a lookup miss is a value, never an exception: a file that is not in
\* the listing gives find_file's negative text naming the token, a missing
\* manifest gives list_dependencies' negative text, a function declared
\* nowhere gives explain_code's negative text, and a call rejects only when
\* a fetch has failed.
MissIsValue ==
    \A t \in 1..Len(turns) :
        turns[t].hadContext =>
            /\ /\ turns[t].handler = "find_file"
               /\ ExactEntries(RequestedToken(t)) \cup SuffixEntries(RequestedToken(t)) = {}
               => turns[t].response = FileNotFoundText(RequestedToken(t))
            /\ /\ turns[t].handler = "list_dependencies"
               /\ ExactEntries("package.json") \cup SuffixEntries("package.json") = {}
               => turns[t].response = NoPackageJsonText /\ turns[t].fetched = <<>>
            /\ /\ turns[t].handler = "explain_code"
               /\ turns[t].pc \in {"timeout", "done"}
               /\ ~DeclaredSomewhere(RequestedFunction(t))
               => turns[t].response = FunctionNotFoundText(RequestedFunction(t))
            /\ turns[t].pc = "rejected" =>
                   \E n \in 1..Len(turns[t].fetched) :
                       fetchLog[turns[t].fetched[n]].failures >= 1

MissingFileNamed ==
    \E t \in 1..Len(turns) :
        /\ FindFileTurn(t) /\ Settled(t) /\ turns[t].message = "find missing.txt"
        /\ Bubble(t).html =
               "Sorry, I couldn't find a file named " \o BackTick \o "missing.txt"
               \o BackTick \o "."

\* The manifest that list_dependencies works on: the index of the entry
\* called package.json, at the top of the listing or else the first below
\* it; 0 when there is none
ManifestEntry ==
    IF ExactEntries("package.json") # {} THEN Min(ExactEntries("package.json"))
    ELSE IF SuffixEntries("package.json") # {} THEN Min(SuffixEntries("package.json"))
    ELSE 0

\* What the manifests of the repositories declare, read off their texts:
\* <<name, version>> pairs, runtime dependencies before development ones; a
\* manifest that is no JSON document declares "unreadable"
Declared(url) ==
    CASE url = "blobs/a3" -> << <<"left-pad", "^1.0.0">> >>
      [] url = "blobs/g2" -> << <<"left-pad", "^1.0.0">>, <<"jest", "^29.0.0">> >>
      [] url = "blobs/g1" -> << <<"express", "^4.0.0">> >>
      [] url = "blobs/d2" -> << >>
      [] url = "blobs/b1" -> "unreadable"

RECURSIVE ListItems(_)
ListItems(pairs) ==
    IF pairs = <<>> THEN ""
    ELSE "<li><strong>" \o Head(pairs)[1] \o "</strong>: " \o Head(pairs)[2] \o "</li>"
         \o ListItems(Tail(pairs))

\* The answer for a manifest that was fetched
ManifestAnswer(url) ==
    IF <<>> # Declared(url) /\ Declared(url) = "unreadable"
    THEN "I found a " \o BackTick \o "package.json" \o BackTick
         \o ", but I had trouble reading it."
    ELSE IF <<>> = Declared(url)
    THEN BackTick \o "package.json" \o BackTick
         \o " was found, but it lists no dependencies."
    ELSE "Here are the dependencies from " \o BackTick \o "package.json" \o BackTick
         \o ":<ul class=\"chat-list\">" \o ListItems(Declared(url)) \o "</ul>"

\* C18: list_dependencies answers by the state of the manifest: none
\* located, the "couldn't find" text; located but not fetched or not
\* parsed, the "had trouble reading" text; parsed without dependencies, the
\* "lists no dependencies" text; otherwise the list of exactly the runtime
\* and development dependencies, each with its version.
DependencyOutcomes ==
    \A t \in 1..Len(turns) :
        /\ turns[t].hadContext /\ turns[t].handler = "list_dependencies"
        /\ turns[t].pc \in {"timeout", "done"}
        => IF ManifestEntry = 0
           THEN turns[t].response =
                    "I couldn't find a " \o BackTick \o "package.json" \o BackTick
                    \o " file to check for dependencies."
           ELSE LET url == chatbotRepoStructure[ManifestEntry].url
                IN  /\ fetchLog[url].failures = 0 => turns[t].response = ManifestAnswer(url)
                    /\ turns[t].response # ManifestAnswer(url) =>
                           turns[t].response = ManifestAnswer("blobs/b1")

OneDependencyListed ==
    \E t \in 1..Len(turns) :
        /\ turns[t].hadContext /\ Settled(t)
        /\ turns[t].message = "What are the dependencies?"
        /\ ManifestEntry # 0
        /\ chatbotRepoStructure[ManifestEntry].url = "blobs/a3"
        /\ Bubble(t).html =
               "Here are the dependencies from " \o BackTick \o "package.json" \o BackTick
               \o ":<ul class=\"chat-list\"><li><strong>left-pad</strong>: ^1.0.0</li></ul>"

\* The keywords of get_metadata by priority
MetadataPriority == << {"owner", "author"}, {"stars"}, {"forks"}, {"license"} >>

\* The priorities of the keywords present in a message
KeywordsPresent(message) ==
    {k \in 1..Len(MetadataPriority) :
        \E word \in MetadataPriority[k] : Includes(ToLower(message), word)}

\* The answer that names the metadatum of priority k
Metadatum(k) ==
    CASE k = 1 -> "The owner of this repository is **" \o chatbotRepoData.owner.login
                  \o "**."
      [] k = 2 -> "It has **" \o ToString(chatbotRepoData.stargazers_count) \o "** stars."
      [] k = 3 -> "It has **" \o ToString(chatbotRepoData.forks_count) \o "** forks."
      [] k = 4 -> IF IsNull(chatbotRepoData.license)
                  THEN "The repository is under the **N/A** license."
                  ELSE "The repository is under the **" \o chatbotRepoData.license.name
                       \o "** license."

\* C19: get_metadata answers with the metadatum of the highest-priority
\* keyword present in the message (owner/author, stars, forks, license),
\* wherever the keywords stand in the message; a license query on a
\* repository without a license reports N/A.
MetadataByPriority ==
    \A t \in 1..Len(turns) :
        turns[t].hadContext /\ turns[t].handler = "get_metadata" =>
            /\ KeywordsPresent(turns[t].message) # {}
            /\ turns[t].response = Metadatum(Min(KeywordsPresent(turns[t].message)))

StarsBeforeLicense ==
    \E t \in 1..Len(turns) :
        /\ turns[t].hadContext /\ Settled(t)
        /\ turns[t].message = "license and stars"
        /\ IsNull(chatbotRepoData.license)
        /\ Bubble(t).html = "It has **5** stars."

\* The entry that the file locator returns for a token: the index of the
\* first exact match, else of the first suffix match, else 0
LocatedEntry(token) ==
    IF ExactEntries(token) # {} THEN Min(ExactEntries(token))
    ELSE IF SuffixEntries(token) # {} THEN Min(SuffixEntries(token))
    ELSE 0

\* The attributes that the click listener of the conversation reads from a
\* view-file button for the entry
Affordance(file) ==
    "data-action=\"view-file\" data-url=\"" \o file.url
    \o "\" data-path=\"" \o file.path \o "\""

\* C20: on a hit the response of find_file carries a view-file button with
\* exactly the locator and the path of the entry located for the requested
\* token in the active listing; on a miss it names the token and carries no
\* button.
FindFileAffordance ==
    \A t \in 1..Len(turns) :
        FindFileTurn(t) =>
            IF LocatedEntry(RequestedToken(t)) # 0
            THEN /\ Includes(turns[t].response,
                        "<button class=\"chat-action-btn\" "
                        \o Affordance(chatbotRepoStructure[LocatedEntry(RequestedToken(t))])
                        \o ">")
                 /\ Includes(turns[t].response,
                        BackTick
                        \o chatbotRepoStructure[LocatedEntry(RequestedToken(t))].path
                        \o BackTick)
            ELSE /\ Includes(turns[t].response,
                        BackTick \o RequestedToken(t) \o BackTick)
                 /\ ~Includes(turns[t].response, "<button")
                 /\ ~Includes(turns[t].response, "data-url")

ViewFileOffered ==
    \E t \in 1..Len(turns) :
        /\ FindFileTurn(t) /\ Settled(t)
        /\ turns[t].message = "Show me the package.json file"
        /\ Bubble(t).html =
               "I found the file " \o BackTick \o "package.json" \o BackTick
               \o ".<br><button class=\"chat-action-btn\" data-action=\"view-file\" "
               \o "data-url=\"blobs/a3\" data-path=\"package.json\">"
               \o "Click here to view it</button>"

\* The script entries of the listing, in listing order
Scripts ==
    LET isScript(file) == EndsWith(file.path, ".js")
    IN  Filter(chatbotRepoStructure, isScript)

\* The scripts whose content declares functionName, by their place in Scripts
Declaring(functionName) ==
    {n \in 1..Len(Scripts) :
        \E content \in RemoteFile(Scripts[n].url) : FunctionRegexTest(content, functionName)}

\* The place in Scripts of a locator
ScriptIndex(url) == CHOOSE n \in 1..Len(Scripts) : Scripts[n].url = url

\* C21: explain_code fetches script entries in listing order, stops at the
\* first one whose content declares the identifier and fetches none listed
\* after it, and its response names that file.
ExplainStopsAtFirst ==
    \A t \in 1..Len(turns) :
        /\ turns[t].hadContext /\ turns[t].handler = "explain_code"
        /\ turns[t].pc \in {"timeout", "done"}
        => /\ \A n \in 1..Len(turns[t].fetched) :
                  /\ \E k \in 1..Len(Scripts) : Scripts[k].url = turns[t].fetched[n]
                  /\ n > 1 => ScriptIndex(turns[t].fetched[n - 1])
                                  < ScriptIndex(turns[t].fetched[n])
                  /\ Declaring(RequestedFunction(t)) # {} =>
                         ScriptIndex(turns[t].fetched[n])
                             <= Min(Declaring(RequestedFunction(t)))
           /\ Declaring(RequestedFunction(t)) # {} =>
                  Includes(turns[t].response,
                      " in " \o BackTick
                      \o Scripts[Min(Declaring(RequestedFunction(t)))].path \o BackTick)

\* ------------------------------------------------------------------------
\* C22: when every fetch succeeds, a conversation with a turn awaiting its
\* response always returns to Idle: every turn has finished, no bot bubble
\* is still marked typing, and each user message is followed by exactly one
\* bot message carrying a response.
\* ------------------------------------------------------------------------
AwaitingResponse ==
    \/ \E t \in 1..Len(turns) : turns[t].pc # "done"
    \/ \E n \in 1..Len(chatMessages) : chatMessages[n].typing

Idle ==
    /\ \A t \in 1..Len(turns) : turns[t].pc = "done"
    /\ Len(chatMessages) = 2 * Len(turns)
    /\ \A t \in 1..Len(turns) :
           /\ chatMessages[2 * t - 1].sender = "user"
           /\ chatMessages[2 * t - 1].html = turns[t].message
           /\ chatMessages[2 * t].sender = "bot"
           /\ ~chatMessages[2 * t].typing
           /\ chatMessages[2 * t].html # TypingIndicator

ReturnsToIdle == [](AwaitingResponse => <>Idle)

\* Two overlapping turns, one of which fetched, are both answered
IdleAfterOverlap ==
    /\ Len(turns) = 2
    /\ Idle
    /\ turns[1].fetched # <<>>
    /\ turns[2].wrote = 2

\* ------------------------------------------------------------------------
\* C23: a submission answered by the no-context guard, by the fallback or by
\* greet, about, find_file, get_metadata or help returns without suspending
\* at a fetch: the step calls fetchFileContent for no locator and leaves the
\* content cache and the repository context as they were, and such a turn
\* never has a fetch to its name.
\* ------------------------------------------------------------------------
SynchronousRules == {"greet", "about", "find_file", "get_metadata", "help"}

RuleFound(message) == FirstMatch(intents, message, 1, 1)

AnsweredSynchronously(hadContext, hit) ==
    \/ ~hadContext
    \/ IsNull(hit)
    \/ ~IsNull(hit) /\ hit.name \in SynchronousRules

NeverSuspends(turn) == AnsweredSynchronously(turn.hadContext, RuleFound(turn.message))

OnlyMissesSuspend ==
    /\ [](\A t \in 1..Len(turns) :
               NeverSuspends(turns[t]) =>
                   turns[t].fetched = <<>> /\ turns[t].pc \in {"timeout", "done"})
    /\ [][Len(turns') = Len(turns) + 1 /\ NeverSuspends(turns'[Len(turns')]) =>
               /\ fetchLog' = fetchLog
               /\ fileContentCache' = fileContentCache
               /\ chatbotVars' = chatbotVars]_vars

\* A file was located, and answered, with nothing fetched or cached
LocatedWithoutFetch ==
    \E t \in 1..Len(turns) :
        /\ turns[t].hadContext /\ turns[t].handler = "find_file" /\ Settled(t)
        /\ Includes(turns[t].response, "data-action=")
        /\ fileContentCache = <<>>
        /\ \A u \in DOMAIN fetchLog : fetchLog[u].calls = 0

\* ------------------------------------------------------------------------
\* C24: with a repository analyzed, each example question of the help
\* response is answered by the handler it illustrates, with the argument it
\* names (the token package.json, the identifier handleAnalysis), and none
\* by the fallback.
\* ------------------------------------------------------------------------
HelpExamples ==
    [message \in {"What is this project about?", "Show me the package.json file",
                  "What are the dependencies?",
                  "What does the 'handleAnalysis' function do?",
                  "Who is the owner?"} |->
        CASE message = "What is this project about?" -> "about"
          [] message = "Show me the package.json file" -> "find_file"
          [] message = "What are the dependencies?" -> "list_dependencies"
          [] message = "What does the 'handleAnalysis' function do?" -> "explain_code"
          [] message = "Who is the owner?" -> "get_metadata"]

HelpExamplesDispatched ==
    \A t \in 1..Len(turns) :
        turns[t].hadContext /\ turns[t].message \in DOMAIN HelpExamples =>
            /\ turns[t].handler = HelpExamples[turns[t].message]
            /\ turns[t].handler = "find_file" => RequestedToken(t) = "package.json"
            /\ turns[t].handler = "explain_code" => RequestedFunction(t) = "handleAnalysis"

\* ------------------------------------------------------------------------
\* C25: an analysis that fails leaves the closure variables of the page
\* alone: whenever no analysis is awaiting a fetch, currentRepoData,
\* currentRepoLanguages and currentRepoStructure are those of the last
\* analysis that succeeded (the ones populateDashboard handed to the
\* chatbot), or all unset when none has.
\* ------------------------------------------------------------------------
AnalysisInFlight == \E a \in 1..Len(analyses) : analyses[a].pc \in {"data", "structure"}

FailureKeepsLastAnalysis ==
    ~AnalysisInFlight =>
        /\ currentRepoData = chatbotRepoData
        /\ currentRepoLanguages = chatbotLanguages
        /\ currentRepoStructure = chatbotRepoStructure

\* ------------------------------------------------------------------------
\* C26: once every file request made (by a click on the tree or on a chat
\* button) has had its fetch answered, the code viewer shows the path and
\* the content of the request made last.
\* ------------------------------------------------------------------------
ViewerShowsLatest ==
    /\ fileRequests # <<>>
    /\ \A r \in 1..Len(fileRequests) : fileRequests[r].pc = "done"
    => /\ view.currentFile = fileRequests[Len(fileRequests)].path
       /\ view.codeDisplay \in RemoteFile(fileRequests[Len(fileRequests)].url)

\* ------------------------------------------------------------------------
\* C27: once every fetchReadme call has been answered, the README pane
\* shows what was fetched for the repository analyzed last: the answer to
\* the call of an earlier analysis does not replace it.
\* ------------------------------------------------------------------------
ReadmeOfLatestAnalysis ==
    /\ readmeRequests # <<>>
    /\ \A r \in 1..Len(readmeRequests) : readmeRequests[r].pc = "done"
    => \E content \in FetchReadmeResults(readmeRequests[Len(readmeRequests)].owner \o "/"
                                           \o readmeRequests[Len(readmeRequests)].repo) :
           view.readmeContent = MarkedParse(content)

\* ------------------------------------------------------------------------
\* C28: the loading overlay is visible exactly while some analysis is
\* awaiting a fetch: shown from the start of handleAnalysis, hidden after
\* every outcome and never while another analysis still awaits.
\* ------------------------------------------------------------------------
LoadingWhileInFlight == view.loading <=> AnalysisInFlight

\* ------------------------------------------------------------------------
\* C29: in the tree createFileStructure builds, every entry of the listing
\* that has other entries beneath it is a folder, and every entry of the
\* listing is found at its path, whatever the order of the listing.
\* ------------------------------------------------------------------------
\* The node of a tree at a path given by its parts, null when there is none
RECURSIVE NodeAt(_, _)
NodeAt(directory, pathParts) ==
    IF Head(pathParts) \notin DOMAIN directory THEN null
    ELSE IF Len(pathParts) = 1 THEN directory[Head(pathParts)]
    ELSE IF directory[Head(pathParts)].type # "folder" THEN null
    ELSE NodeAt(directory[Head(pathParts)].children, Tail(pathParts))

Beneath(path, directoryPath) == StartsWithAt(path, 1, directoryPath \o "/")

TreeOrderIndependent ==
    ~IsNull(view.fileTree) =>
        \A i \in 1..Len(currentRepoStructure) :
            /\ ~IsNull(NodeAt(view.fileTree, Split(currentRepoStructure[i].path, "/")))
            /\ \A j \in 1..Len(currentRepoStructure) :
                   Beneath(currentRepoStructure[j].path, currentRepoStructure[i].path) =>
                       NodeAt(view.fileTree,
                              Split(currentRepoStructure[i].path, "/")).type = "folder"

\* ------------------------------------------------------------------------
\* C30: every message that generateChatbotResponse hands to get_metadata
\* holds one of the words owner, author, stars, forks, license in some
\* letter case, so handleGetMetadata answers with one of its four metadata
\* texts and never with its closing "couldn't find" text.
\* ------------------------------------------------------------------------
MetadataAnswers == {Metadatum(k) : k \in 1..Len(MetadataPriority)}

MetadataAlwaysFound ==
    \A t \in 1..Len(turns) :
        /\ turns[t].hadContext /\ turns[t].handler = "get_metadata"
        /\ turns[t].pc \in {"timeout", "done"}
        => /\ \E word \in {"owner", "author", "stars", "forks", "license"} :
                  Includes(ToLower(turns[t].message), word)
           /\ turns[t].response # MetadataNotFoundText
           /\ turns[t].response \in MetadataAnswers

\* A keyword in capitals is answered
CapitalKeywordAnswered ==
    \E t \in 1..Len(turns) :
        /\ turns[t].hadContext /\ turns[t].handler = "get_metadata" /\ Settled(t)
        /\ turns[t].message = "LICENSE of the repo"
        /\ Includes(turns[t].response, "license.")

====
